---- MODULE Spec2Model ----
(***************************************************************************)
(* Model of the image compressor: the page's handleCompress, the advanced  *)
(* PNG and JPEG compressors, the PNG worker pool, JPEG tiled compression,  *)
(* the tilers and the quality searches.                                    *)
(*                                                                         *)
(* File sizes and byte targets are counted in KB.  Qualities are counted   *)
(* in units of 1/51200, in which every midpoint of the binary searches is  *)
(* an integer.                                                             *)
(***************************************************************************)
EXTENDS Integers, Sequences, FiniteSets, TLC

Null == "null"

KB == 1
MB == 1024

(* File sizes a user can upload: one per size bracket of the code. *)
FileSizes == {90, 900, 2 * MB, 4 * MB, 6 * MB, 9 * MB, 12 * MB, 20 * MB, 60 * MB}
FileTypes == {"image/png", "image/jpeg", "image/gif"}
Files == [type : FileTypes, size : FileSizes]
NoFile == [type |-> "none", size |-> 0]

(* A Blob: the input file itself, or bytes encoded from it. *)
Blob(kind, file) == [kind |-> kind, of |-> file]
NoResult == [by |-> "none", blob |-> Blob("none", NoFile), quality |-> 0]

Last(s) == s[Len(s)]
NoDuplicates(s) == \A i, j \in 1..Len(s) : i # j => s[i] # s[j]

VARIABLES
  \* ---- page (Home component) ----
  originalImage, compressedResult, isCompressing, convertToJpeg,
  supportsAdvancedFeatures, mounted, hc, timeoutPromise, pageTrace, error,
  \* ---- advanced compressor instance (PNGCompressorAdvanced / JPEGCompressorAdvanced) ----
  adv, advTrace, advStages

  \* ---- worker pool of one PNGCompressorAdvanced and the tasks that use it ----
VARIABLES maxWorkers, workerPool, workerInitPromise, initializedCount, creations, tasks

  \* ---- tiling of one image: the loop position and the tile rectangles produced ----
VARIABLES tiling, tileRects

  \* ---- one run of JPEGCompressorAdvanced.compressWithTiling ----
VARIABLES tileRun, tileState, tileRequests, tileCanvas, fullCanvas, tileFellBack

  \* ---- one run of a quality search ----
VARIABLES search

  \* ---- one call of compress() of one of the four compressors ----
VARIABLES entry

  \* ---- one run of PNGCompressor.analyzeImageType ----
VARIABLES analysis

  \* ---- one pixel of the image data through the colour reduction passes of PNGCompressor ----
VARIABLES quant

  \* ---- one JPEGCompressorAdvanced instance and the compressWithWorker calls that run on it ----
VARIABLES jpeg, jpegCalls

  \* ---- progress display of handleCompress ----
VARIABLES compressionProgress, compressionInfo, intervals, hcRun

  \* ---- simple strategies of PNGCompressorAdvanced ----
VARIABLES simple

  \* ---- downscaling of the PNG compressors ----
VARIABLES scaling

  \* ---- canvas pool of PNGCompressorAdvanced ----
VARIABLES canvasPool, dsc

pageVars == <<originalImage, compressedResult, isCompressing, convertToJpeg,
              supportsAdvancedFeatures, mounted, hc, timeoutPromise, pageTrace, error>>
advVars == <<adv, advTrace, advStages>>
poolVars == <<maxWorkers, workerPool, workerInitPromise, initializedCount, creations, tasks>>
tilerVars == <<tiling, tileRects>>
tileVars == <<tileRun, tileState, tileRequests, tileCanvas, fullCanvas, tileFellBack>>
searchVars == <<search>>
entryVars == <<entry>>
analysisVars == <<analysis>>
quantVars == <<quant>>
jpegWorkerVars == <<jpeg, jpegCalls>>
progressVars == <<compressionProgress, compressionInfo, intervals, hcRun>>
simpleVars == <<simple>>
downscaleVars == <<scaling>>
canvasVars == <<canvasPool, dsc>>
nonPageVars == <<poolVars, tilerVars, tileVars, searchVars, entryVars, analysisVars, quantVars, jpegWorkerVars, progressVars, simpleVars, downscaleVars, canvasVars>>
nonPoolVars == <<pageVars, advVars, tilerVars, tileVars, searchVars, entryVars, analysisVars, quantVars, jpegWorkerVars, progressVars, simpleVars, downscaleVars, canvasVars>>
nonTilerVars == <<pageVars, advVars, poolVars, tileVars, searchVars, entryVars, analysisVars, quantVars, jpegWorkerVars, progressVars, simpleVars, downscaleVars, canvasVars>>
nonTileVars == <<pageVars, advVars, poolVars, tilerVars, searchVars, entryVars, analysisVars, quantVars, jpegWorkerVars, progressVars, simpleVars, downscaleVars, canvasVars>>
nonSearchVars == <<pageVars, advVars, poolVars, tilerVars, tileVars, entryVars, analysisVars, quantVars, jpegWorkerVars, progressVars, simpleVars, downscaleVars, canvasVars>>
nonEntryVars == <<pageVars, advVars, poolVars, tilerVars, tileVars, searchVars, analysisVars, quantVars, jpegWorkerVars, progressVars, simpleVars, downscaleVars, canvasVars>>
nonAnalysisVars == <<pageVars, advVars, poolVars, tilerVars, tileVars, searchVars, entryVars, quantVars, jpegWorkerVars, progressVars, simpleVars, downscaleVars, canvasVars>>
nonQuantVars == <<pageVars, advVars, poolVars, tilerVars, tileVars, searchVars, entryVars, analysisVars, jpegWorkerVars, progressVars, simpleVars, downscaleVars, canvasVars>>
nonJpegWorkerVars == <<pageVars, advVars, poolVars, tilerVars, tileVars, searchVars, entryVars, analysisVars, quantVars, progressVars, simpleVars, downscaleVars, canvasVars>>
nonProgressVars == <<pageVars, advVars, poolVars, tilerVars, tileVars, searchVars, entryVars, analysisVars, quantVars, jpegWorkerVars, simpleVars, downscaleVars, canvasVars>>
nonSimpleVars == <<pageVars, advVars, poolVars, tilerVars, tileVars, searchVars, entryVars, analysisVars, quantVars, jpegWorkerVars, progressVars, downscaleVars, canvasVars>>
nonDownscaleVars == <<pageVars, advVars, poolVars, tilerVars, tileVars, searchVars, entryVars, analysisVars, quantVars, jpegWorkerVars, progressVars, simpleVars, canvasVars>>
nonCanvasVars == <<pageVars, advVars, poolVars, tilerVars, tileVars, searchVars, entryVars, analysisVars, quantVars, jpegWorkerVars, progressVars, simpleVars, downscaleVars>>

(***************************************************************************)
(* Advanced compressors: compress() as a strategy state machine.           *)
(***************************************************************************)
MAX_SIZE == 50 * MB
PNG_TARGET_SIZE_BASE == 200 * KB
JPEG_TARGET_SIZE_BASE == 100 * KB

AdvIdle == [kind |-> "none", pc |-> "idle", file |-> NoFile, targetSize |-> 0,
            targetSizeInternal |-> 0, level |-> "primary", err |-> Null,
            result |-> NoResult]

(* targetSizeInternal of PNGCompressorAdvanced.compress *)
PngTargetSizeInternal(size) ==
  IF size > 15 * MB THEN 400 * KB
  ELSE IF size > 8 * MB THEN 300 * KB
  ELSE IF size > 3 * MB THEN 250 * KB
  ELSE PNG_TARGET_SIZE_BASE

(* targetSize of JPEGCompressorAdvanced.compress *)
JpegTargetSize(size) ==
  IF size > 15 * MB THEN 300 * KB
  ELSE IF size > 8 * MB THEN 250 * KB
  ELSE IF size > 3 * MB THEN 200 * KB
  ELSE JPEG_TARGET_SIZE_BASE

(* error.message.includes("worker") || error.message.includes("WASM") *)
MentionsWorkerOrWASM(msg) == msg \in {"worker failed", "WASM failed"}
WorkerErrorMessages == {"worker failed", "WASM failed", "Unknown error"}

(* The synchronous part of PNGCompressorAdvanced.compress, up to its first await.
   options.targetSize is optTarget (0 when the caller passes none). *)
PngCompressCall(file, optTarget) ==
  LET targetSize == IF optTarget # 0 THEN optTarget ELSE PNG_TARGET_SIZE_BASE
      base == [AdvIdle EXCEPT !.kind = "png", !.file = file, !.targetSize = targetSize]
  IN  IF file.type # "image/png"
        THEN [a |-> [base EXCEPT !.pc = "rejected", !.err = "Unsupported file type"],
              t |-> <<"Failed">>, s |-> <<>>]
      ELSE IF file.size > MAX_SIZE
        THEN [a |-> [base EXCEPT !.pc = "rejected", !.err = "File size exceeds maximum"],
              t |-> <<"Failed">>, s |-> <<>>]
      ELSE IF file.size <= targetSize
        THEN [a |-> [base EXCEPT !.pc = "fileToDataURL"], t |-> <<"SizeCheck">>, s |-> <<>>]
      ELSE [a |-> [base EXCEPT !.pc = "workerInit"], t |-> <<"SizeCheck">>, s |-> <<>>]

(* The synchronous part of JPEGCompressorAdvanced.compress: it has no size check. *)
JpegCompressCall(file) ==
  LET base == [AdvIdle EXCEPT !.kind = "jpeg", !.file = file,
                              !.targetSize = JpegTargetSize(file.size),
                              !.targetSizeInternal = JpegTargetSize(file.size)]
  IN  IF file.type # "image/jpeg"
        THEN [a |-> [base EXCEPT !.pc = "rejected", !.err = "Unsupported file type"],
              t |-> <<"Failed">>, s |-> <<>>]
      ELSE IF file.size > MAX_SIZE
        THEN [a |-> [base EXCEPT !.pc = "rejected", !.err = "File size exceeds maximum"],
              t |-> <<"Failed">>, s |-> <<>>]
      ELSE IF file.size > 5 * MB
        THEN [a |-> [base EXCEPT !.pc = "tiling"], t |-> <<"Primary">>,
              s |-> <<"compressWithTiling">>]
      ELSE [a |-> [base EXCEPT !.pc = "compressWithWorker"], t |-> <<"Primary">>,
            s |-> <<"compressWithWorker">>]

AdvResolve(stage, blob, quality) ==
  /\ adv' = [adv EXCEPT !.pc = "resolved",
                        !.result = [by |-> stage, blob |-> blob, quality |-> quality]]
  /\ advTrace' = Append(advTrace, "Emit")
  /\ UNCHANGED advStages

AdvReject(msg) ==
  /\ adv' = [adv EXCEPT !.pc = "rejected", !.err = msg]
  /\ advTrace' = Append(advTrace, "Failed")
  /\ UNCHANGED advStages

(* A failure of the last strategy of the run: the secondary strategy's error is
   rethrown (wrapped, for PNG), a primary strategy without a catch rejects. *)
AdvStrategyFailed(msg) ==
  /\ adv' = [adv EXCEPT !.pc = "rejected", !.err = msg]
  /\ advTrace' = advTrace \o
                   (IF adv.level = "secondary" THEN <<"SecondaryFailed", "Failed">>
                                               ELSE <<"PrimaryFailed", "Failed">>)
  /\ UNCHANGED advStages

AdvGoto(pc) ==
  /\ adv' = [adv EXCEPT !.pc = pc]
  /\ UNCHANGED <<advTrace, advStages>>

(* The choice of the primary strategy of PNGCompressorAdvanced.compress *)
PngPrimaryFor(size) ==
  IF size > 10 * MB THEN "compressLargeImage"
  ELSE IF size > 5 * MB THEN "compressWithDownscaling"
  ELSE "compressWithQualityPreservation"

(* The catch block of PNGCompressorAdvanced.compress: the secondary strategy is
   chosen by the text of the primary strategy's error. *)
PngSecondaryFor(msg) ==
  IF MentionsWorkerOrWASM(msg) THEN "compressWithSimpleApproach" ELSE "compressWithSimpleTiling"

PngPrimaryRetried(msg) ==
  /\ adv' = [adv EXCEPT !.pc = PngPrimaryFor(adv.file.size), !.err = msg]
  /\ advTrace' = advTrace \o <<"PrimaryFailed", "Primary">>
  /\ advStages' = Append(advStages, PngPrimaryFor(adv.file.size))

PngPrimaryFailed(msg) ==
  /\ adv' = [adv EXCEPT !.pc = PngSecondaryFor(msg), !.err = msg, !.level = "secondary"]
  /\ advTrace' = advTrace \o <<"PrimaryFailed", "Secondary">>
  /\ advStages' = Append(advStages, PngSecondaryFor(msg))

(* The catch block of JPEGCompressorAdvanced.compressWithTiling. *)
JpegTilingFailed(msg) ==
  /\ adv' = [adv EXCEPT !.pc = "compressWithWorker", !.err = msg, !.level = "secondary"]
  /\ advTrace' = advTrace \o <<"PrimaryFailed", "Secondary">>
  /\ advStages' = Append(advStages, "compressWithWorker")

(* size check of PNGCompressorAdvanced.compress: await fileToDataURL, return the file *)
AdvFileToDataURLDone ==
  /\ adv.pc = "fileToDataURL"
  /\ \E ok \in BOOLEAN :
       IF ok THEN AdvResolve("sizeCheck", Blob("file", adv.file), 100)
             ELSE AdvReject("FileReader error")
  /\ UNCHANGED <<pageVars, nonPageVars>>

(* await this.workerInitPromise, then the choice of the primary strategy *)
AdvWorkerInitDone ==
  /\ adv.pc = "workerInit"
  /\ \E ok \in BOOLEAN :
       IF ok
         THEN /\ adv' = [adv EXCEPT !.pc = PngPrimaryFor(adv.file.size),
                           !.targetSizeInternal = PngTargetSizeInternal(adv.file.size)]
              /\ advTrace' = Append(advTrace, "Primary")
              /\ advStages' = Append(advStages, PngPrimaryFor(adv.file.size))
         ELSE AdvReject("Failed to initialize any workers")
  /\ UNCHANGED <<pageVars, nonPageVars>>

(* compressLargeImage: no worker; without downscaling it runs compressWithSimpleApproach *)
PngLargeImageDone ==
  /\ adv.pc = "compressLargeImage"
  /\ \E ok \in BOOLEAN, downscale \in BOOLEAN :
       IF ~ok THEN AdvStrategyFailed("Image load failed")
       ELSE IF downscale THEN AdvResolve("compressLargeImage", Blob("encoded", adv.file), 80)
       ELSE /\ adv' = [adv EXCEPT !.pc = "compressWithSimpleApproach"]
            /\ advStages' = Append(advStages, "compressWithSimpleApproach")
            /\ UNCHANGED advTrace
  /\ UNCHANGED <<pageVars, nonPageVars>>

(* compressWithDownscaling up to the call of compressWithPngEncoder *)
PngDownscalingDone ==
  /\ adv.pc = "compressWithDownscaling"
  /\ \E ok \in BOOLEAN :
       IF ok THEN AdvGoto("compressWithPngEncoder")
             ELSE PngPrimaryFailed("Image load failed")
  /\ UNCHANGED <<pageVars, nonPageVars>>

(* the catch inside compressWithDownscaling: findOptimalQuality on the canvas *)
PngEncoderFallbackDone ==
  /\ adv.pc = "encoderFallback"
  /\ \E ok \in BOOLEAN :
       IF ok THEN AdvResolve("findOptimalQuality", Blob("encoded", adv.file), 10)
             ELSE PngPrimaryFailed("Canvas to Blob conversion failed")
  /\ UNCHANGED <<pageVars, nonPageVars>>

(* compressWithQualityPreservation up to the post to the worker *)
PngQualityPreservationDone ==
  /\ adv.pc = "compressWithQualityPreservation"
  /\ \E ok \in BOOLEAN :
       IF ok THEN AdvGoto("qpWorker")
             ELSE PngPrimaryFailed("Could not get canvas context")
  /\ UNCHANGED <<pageVars, nonPageVars>>

(* compressWithSimpleApproach / compressWithSimpleTiling: no worker *)
PngSimpleStrategyDone ==
  /\ adv.pc \in {"compressWithSimpleApproach", "compressWithSimpleTiling"}
  /\ \E ok \in BOOLEAN :
       IF ok THEN AdvResolve(adv.pc, Blob("encoded", adv.file), 10)
             ELSE AdvStrategyFailed("Canvas to Blob conversion failed")
  /\ UNCHANGED <<pageVars, nonPageVars>>

(* compressWithTiling up to the end of the tile loop (each tile settles by the
   worker's answer or by its 5 s timeout), or its failure. *)
JpegTilingDone ==
  /\ adv.pc = "tiling"
  /\ \E ok \in BOOLEAN, isExtremelyLarge \in BOOLEAN :
       IF ~ok THEN JpegTilingFailed("Image load failed")
       ELSE IF isExtremelyLarge
         THEN /\ adv' = [adv EXCEPT !.pc = "compressExtremelyLargeImage"]
              /\ advStages' = Append(advStages, "compressExtremelyLargeImage")
              /\ UNCHANGED advTrace
       ELSE AdvGoto("tilingQuality")
  /\ UNCHANGED <<pageVars, nonPageVars>>

(* findOptimalQuality on the reassembled canvas; minExceeded: even the minimum
   quality is above the target, so the progressive encoder is tried. *)
JpegQualityDone ==
  /\ adv.pc \in {"tilingQuality", "compressExtremelyLargeImage"}
  /\ \E ok \in BOOLEAN, minExceeded \in BOOLEAN :
       IF ~ok
         THEN IF adv.pc = "tilingQuality"
                THEN JpegTilingFailed("Canvas to Blob conversion failed")
                ELSE AdvStrategyFailed("Canvas to Blob conversion failed")
       ELSE IF minExceeded THEN AdvGoto("compressWithProgressiveJPEG")
       ELSE AdvResolve("findOptimalQuality", Blob("encoded", adv.file), 50)
  /\ UNCHANGED <<pageVars, nonPageVars>>

(* The worker waits of the advanced compressors.  Only compressWithPngEncoder
   arms a timeout. *)
WorkerWaits == {"compressWithPngEncoder", "qpWorker", "compressWithProgressiveJPEG",
                "compressWithWorker"}

AdvWorkerResult ==
  /\ adv.pc \in WorkerWaits
  /\ AdvResolve(adv.pc, Blob("encodedByWorker", adv.file), 0)
  /\ UNCHANGED <<pageVars, nonPageVars>>

AdvWorkerError ==
  /\ adv.pc \in WorkerWaits
  /\ \E msg \in WorkerErrorMessages :
       CASE adv.pc = "compressWithPngEncoder" -> AdvGoto("encoderFallback")
         [] adv.pc = "qpWorker" -> PngPrimaryFailed(msg)
         [] adv.pc = "compressWithProgressiveJPEG" ->
              AdvResolve("findOptimalQuality", Blob("encoded", adv.file), 10)
         [] adv.pc = "compressWithWorker" -> AdvStrategyFailed(msg)
  /\ UNCHANGED <<pageVars, nonPageVars>>

AdvEncoderTimeout ==
  /\ adv.pc = "compressWithPngEncoder"
  /\ AdvGoto("encoderFallback")
  /\ UNCHANGED <<pageVars, nonPageVars>>

AdvNext ==
  \/ AdvFileToDataURLDone
  \/ AdvWorkerInitDone
  \/ PngLargeImageDone
  \/ PngDownscalingDone
  \/ PngEncoderFallbackDone
  \/ PngQualityPreservationDone
  \/ PngSimpleStrategyDone
  \/ JpegTilingDone
  \/ JpegQualityDone
  \/ AdvWorkerResult
  \/ AdvWorkerError
  \/ AdvEncoderTimeout

(***************************************************************************)
(* The worker pool of PNGCompressorAdvanced and the tasks                  *)
(* (compressWithPngEncoder, compressWithQualityPreservation) that run      *)
(* concurrently on one compressor instance.                                *)
(***************************************************************************)
MaxTasks == 3
Tasks == 1..MaxTasks

(* navigator.hardwareConcurrency (0: not reported) *)
HardwareConcurrency == {0, 2, 3}
Max(a, b) == IF a > b THEN a ELSE b
Min(a, b) == IF a < b THEN a ELSE b
MaxWorkersOf(h) == Max(2, Min(4, IF h = 0 THEN 2 ELSE h))
InitWorkerCount == Min(2, maxWorkers)

TaskIdle == [kind |-> "none", pc |-> "idle", held |-> 0, settled |-> "no", timer |-> "off",
             listening |-> FALSE, requested |-> FALSE, releasedAtSettle |-> TRUE,
             answerOf |-> 0]

PoolInit ==
  /\ maxWorkers = 0
  /\ workerPool = <<>>
  /\ workerInitPromise = "null"
  /\ initializedCount = 0
  /\ creations = {}
  /\ tasks = [t \in Tasks |-> TaskIdle]

(* workerPool.find((w) => !w.busy): index of the first idle worker, 0 if none *)
FirstIdle(pool) ==
  IF \E i \in 1..Len(pool) : ~pool[i].busy
    THEN CHOOSE i \in 1..Len(pool) : ~pool[i].busy /\ \A j \in 1..(i - 1) : pool[j].busy
    ELSE 0

(* releaseWorker: clears the busy flag of the first pooled worker with that id *)
releaseWorker(pool, id) ==
  IF \E i \in 1..Len(pool) : pool[i].id = id
    THEN LET k == CHOOSE i \in 1..Len(pool) : pool[i].id = id /\ \A j \in 1..(i - 1) : pool[j].id # id
         IN  [pool EXCEPT ![k].busy = FALSE]
    ELSE pool

(* the Promise executor of a task, entered with the pooled worker at index w:
   addEventListener, setTimeout (compressWithPngEncoder only), canvas.toBlob *)
TaskBegin(task, w) ==
  [task EXCEPT !.pc = "toBlob", !.held = w, !.listening = TRUE,
               !.timer = IF task.kind = "encoder" THEN "armed" ELSE "off"]

(* resolve / reject of the task's promise: the first call wins.  pool is the
   pool at that moment. *)
Settle(task, outcome, pool) ==
  IF task.settled # "no" THEN task
  ELSE [task EXCEPT !.settled = outcome,
                    !.releasedAtSettle = (task.held = 0 \/ ~pool[task.held].busy)]

(* initializeWorkerPool, called by the constructor, which has just computed
   poolConfig.maxWorkers: createWorker(i) for i < initWorkerCount.  Its own timeout
   is armed after the workers' timeouts with the same delay, so it always finds
   initializedCount >= initWorkerCount and does nothing. *)
initializeWorkerPool ==
  /\ workerInitPromise = "null"
  /\ \E h \in HardwareConcurrency : maxWorkers' = MaxWorkersOf(h)
  /\ workerInitPromise' = "pending"
  /\ creations' = {[by |-> 0, id |-> i] : i \in 0..(Min(2, maxWorkers') - 1)}
  /\ UNCHANGED <<workerPool, initializedCount, tasks>>
  /\ UNCHANGED nonPoolVars

(* checkCompletion of initializeWorkerPool, with the pool as it is then *)
checkCompletion(pool) ==
  /\ initializedCount' = initializedCount + 1
  /\ workerInitPromise' =
       IF initializedCount + 1 >= InitWorkerCount /\ workerInitPromise = "pending"
         THEN (IF Len(pool) > 0 THEN "resolved" ELSE "rejected")
         ELSE workerInitPromise

(* createWorker: the worker answers "ready".  The entry is pushed; a getWorker
   that awaited this creation then takes workerPool[newWorkerId]. *)
WorkerReady ==
  /\ \E c \in creations :
       LET pushed == Append(workerPool, [id |-> c.id, busy |-> FALSE])
       IN  /\ creations' = creations \ {c}
           /\ IF c.by = 0
                THEN /\ workerPool' = pushed
                     /\ checkCompletion(pushed)
                     /\ UNCHANGED tasks
                ELSE /\ workerPool' = [pushed EXCEPT ![c.id + 1].busy = TRUE]
                     /\ tasks' = [tasks EXCEPT ![c.by] = TaskBegin(tasks[c.by], c.id + 1)]
                     /\ UNCHANGED <<initializedCount, workerInitPromise>>
  /\ UNCHANGED maxWorkers
  /\ UNCHANGED nonPoolVars

(* createWorker rejects: the initialization timeout fired (the worker is
   terminated) or the worker raised an error event *)
WorkerInitFailed ==
  /\ \E c \in creations :
       /\ creations' = creations \ {c}
       /\ IF c.by = 0
            THEN /\ checkCompletion(workerPool)
                 /\ UNCHANGED tasks
            ELSE /\ tasks' = [tasks EXCEPT ![c.by] =
                                [Settle(tasks[c.by], "rejected", workerPool) EXCEPT !.pc = "done"]]
                 /\ UNCHANGED <<initializedCount, workerInitPromise>>
  /\ UNCHANGED <<maxWorkers, workerPool>>
  /\ UNCHANGED nonPoolVars

(* a task starts: compress() has awaited workerInitPromise, the strategy calls
   getWorker, which awaits workerInitPromise again *)
TaskStart ==
  /\ workerInitPromise = "resolved"
  /\ \E t \in Tasks, kind \in {"encoder", "qp"} :
       /\ tasks[t].pc = "idle"
       /\ \A u \in 1..(t - 1) : tasks[u].pc # "idle"
       /\ tasks' = [tasks EXCEPT ![t] = [TaskIdle EXCEPT !.kind = kind, !.pc = "getWorker"]]
  /\ UNCHANGED <<maxWorkers, workerPool, workerInitPromise, initializedCount, creations>>
  /\ UNCHANGED nonPoolVars

(* getWorker after its await: an idle worker, else a new worker, else polling *)
GetWorkerCanCreate(pool) == Len(pool) < maxWorkers

getWorker ==
  /\ \E t \in Tasks :
       /\ tasks[t].pc = "getWorker"
       /\ LET w == FirstIdle(workerPool)
          IN  IF w # 0
                THEN /\ workerPool' = [workerPool EXCEPT ![w].busy = TRUE]
                     /\ tasks' = [tasks EXCEPT ![t] = TaskBegin(tasks[t], w)]
                     /\ UNCHANGED creations
              ELSE IF GetWorkerCanCreate(workerPool)
                THEN /\ creations' = creations \cup
                                       {[by |-> t, id |-> Len(workerPool)]}
                     /\ tasks' = [tasks EXCEPT ![t].pc = "creating"]
                     /\ UNCHANGED workerPool
              ELSE /\ tasks' = [tasks EXCEPT ![t].pc = "polling"]
                   /\ UNCHANGED <<workerPool, creations>>
  /\ UNCHANGED <<maxWorkers, workerInitPromise, initializedCount>>
  /\ UNCHANGED nonPoolVars

(* a tick of the 50 ms interval of getWorker that finds an idle worker *)
PollTick ==
  /\ \E t \in Tasks :
       /\ tasks[t].pc = "polling"
       /\ FirstIdle(workerPool) # 0
       /\ workerPool' = [workerPool EXCEPT ![FirstIdle(workerPool)].busy = TRUE]
       /\ tasks' = [tasks EXCEPT ![t] = TaskBegin(tasks[t], FirstIdle(workerPool))]
  /\ UNCHANGED <<maxWorkers, workerInitPromise, initializedCount, creations>>
  /\ UNCHANGED nonPoolVars

(* the pooled worker a task holds *)
HeldId(t) == workerPool[tasks[t].held].id

(* canvas.toBlob calls back, with a blob or with null *)
ToBlobDone ==
  /\ \E t \in Tasks, blob \in {"blob", "null"} :
       /\ tasks[t].pc = "toBlob"
       /\ tasks' = [tasks EXCEPT ![t] =
            IF blob = "null"
              THEN [Settle(tasks[t], "rejected", workerPool) EXCEPT
                      !.pc = "done",
                      !.timer = "off"]
              ELSE [tasks[t] EXCEPT !.pc = "arrayBuffer"]]
  /\ UNCHANGED <<maxWorkers, workerPool, workerInitPromise, initializedCount, creations>>
  /\ UNCHANGED nonPoolVars

(* blob.arrayBuffer() and worker.postMessage succeed: the request is with the worker *)
PostToWorker ==
  /\ \E t \in Tasks :
       /\ tasks[t].pc = "arrayBuffer"
       /\ tasks' = [tasks EXCEPT ![t].pc = "posted", ![t].requested = TRUE]
  /\ UNCHANGED <<maxWorkers, workerPool, workerInitPromise, initializedCount, creations>>
  /\ UNCHANGED nonPoolVars

(* blob.arrayBuffer() rejects or postMessage throws.  compressWithPngEncoder
   catches it; in compressWithQualityPreservation it escapes the async callback
   and the task's promise is left pending. *)
PostFailed ==
  /\ \E t \in Tasks :
       /\ tasks[t].pc = "arrayBuffer"
       /\ IF tasks[t].kind = "encoder"
            THEN LET pool == releaseWorker(workerPool, HeldId(t))
                 IN  /\ workerPool' = pool
                     /\ tasks' = [tasks EXCEPT ![t] =
                          [Settle(tasks[t], "rejected", pool) EXCEPT
                             !.pc = "done", !.listening = FALSE,
                             !.timer = "off"]]
            ELSE /\ tasks' = [tasks EXCEPT ![t].pc = "done"]
                 /\ UNCHANGED workerPool
  /\ UNCHANGED <<maxWorkers, workerInitPromise, initializedCount, creations>>
  /\ UNCHANGED nonPoolVars

(* messageHandler of a task on a "result" or "error" message *)
ReleaseOnMessage(pool, id) == releaseWorker(pool, id)

(* the worker answers the request of task t with "result" or "error"; every
   messageHandler still attached to that worker receives the message (a message
   names no task).  answerOf records whose request the settling message answers. *)
WorkerMessage ==
  /\ \E t \in Tasks, type \in {"result", "error"} :
       /\ tasks[t].requested
       /\ LET w == tasks[t].held
              pool == ReleaseOnMessage(workerPool, workerPool[w].id)
          IN  /\ workerPool' = pool
              /\ tasks' = [u \in Tasks |->
                   LET heard == IF tasks[u].held = w /\ tasks[u].listening
                                  THEN [Settle(tasks[u], IF type = "result" THEN "resolved" ELSE "rejected",
                                               pool)
                                          EXCEPT !.listening = FALSE,
                                                 !.answerOf = IF tasks[u].settled = "no" THEN t ELSE @]
                                  ELSE tasks[u]
                   IN  IF u = t THEN [heard EXCEPT !.requested = FALSE, !.pc = "done"] ELSE heard]
  /\ UNCHANGED <<maxWorkers, workerInitPromise, initializedCount, creations>>
  /\ UNCHANGED nonPoolVars

(* the 10 s timer of compressWithPngEncoder fires (it is cleared only on the
   failure paths of the toBlob callback) *)
TaskTimeout ==
  /\ \E t \in Tasks :
       /\ tasks[t].timer = "armed"
       /\ LET pool == releaseWorker(workerPool, HeldId(t))
          IN  /\ workerPool' = pool
              /\ tasks' = [tasks EXCEPT ![t] =
                   [Settle(tasks[t], "rejected", pool) EXCEPT
                      !.timer = "off", !.listening = FALSE]]
  /\ UNCHANGED <<maxWorkers, workerInitPromise, initializedCount, creations>>
  /\ UNCHANGED nonPoolVars

PoolNext ==
  \/ initializeWorkerPool
  \/ WorkerReady
  \/ WorkerInitFailed
  \/ TaskStart
  \/ getWorker
  \/ PollTick
  \/ ToBlobDone
  \/ PostToWorker
  \/ PostFailed
  \/ WorkerMessage
  \/ TaskTimeout

(***************************************************************************)
(* Tile rectangles: the plain grid of compressWithTiling (batches of        *)
(* BATCH_SIZE tiles along x), the four regions of                           *)
(* compressExtremelyLargeImage with the grid inside each, and the grid of   *)
(* compressWithSimpleTiling.                                                *)
(***************************************************************************)
MaxDim == 5
MaxTileSize == 3
BATCH_SIZE == 4

CeilDiv(a, b) == (a + b - 1) \div b
FloorDiv(a, b) == a \div b

TilerIdle == [kind |-> "none", pc |-> "idle", width |-> 0, height |-> 0, tileSize |-> 0,
              region |-> 0, x |-> 0, y |-> 0]

TilerInit ==
  /\ tiling = TilerIdle
  /\ tileRects = <<>>

Rect(x, y, w, h) == [x |-> x, y |-> y, width |-> w, height |-> h]

(* Math.min(TILE_SIZE, extent - offset): the size of a tile, smaller at the edges *)
TileExtentUnclamped(tileSize, extent, offset) == tileSize

TileExtent(tileSize, extent, offset) == Min(tileSize, extent - offset)

(* the regions of compressExtremelyLargeImage *)
Regions(width, height) ==
  << Rect(0, 0, CeilDiv(width, 2), CeilDiv(height, 2)),
     Rect(CeilDiv(width, 2), 0, FloorDiv(width, 2), CeilDiv(height, 2)),
     Rect(0, CeilDiv(height, 2), CeilDiv(width, 2), FloorDiv(height, 2)),
     Rect(CeilDiv(width, 2), CeilDiv(height, 2), FloorDiv(width, 2), FloorDiv(height, 2)) >>

(* the area the running loops tile: the image, or the current region *)
TiledArea(t) ==
  IF t.kind = "quadrants" THEN Regions(t.width, t.height)[t.region]
  ELSE Rect(0, 0, t.width, t.height)

TilesX(t) == CeilDiv(TiledArea(t).width, t.tileSize)
TilesY(t) == CeilDiv(TiledArea(t).height, t.tileSize)

(* the rectangle, in image coordinates, of tile (tx, ty) of the tiled area *)
TileRect(t, tx, ty) ==
  LET a == TiledArea(t)
  IN  Rect(a.x + tx * t.tileSize, a.y + ty * t.tileSize,
           TileExtent(t.tileSize, a.width, tx * t.tileSize),
           TileExtent(t.tileSize, a.height, ty * t.tileSize))

(* how many tiles one pass of the inner loop takes: a batch in compressWithTiling *)
Stride(t) == IF t.kind = "grid" THEN BATCH_SIZE ELSE 1

(* the loop variables after the tiles at (x .. x + Stride - 1, y) are done *)
Advance(t) ==
  IF t.x + Stride(t) < TilesX(t) THEN [t EXCEPT !.x = t.x + Stride(t)]
  ELSE IF t.y + 1 < TilesY(t) THEN [t EXCEPT !.x = 0, !.y = t.y + 1]
  ELSE [t EXCEPT !.pc = "regionDone"]

(* entering the loops of an area: they run only if it has tiles *)
EnterArea(t) ==
  IF TilesX(t) > 0 /\ TilesY(t) > 0 THEN [t EXCEPT !.pc = "tiles", !.x = 0, !.y = 0]
  ELSE [t EXCEPT !.pc = "regionDone"]

(* a tiling starts on an image of some size with some tile size *)
TilerStart ==
  /\ tiling.pc \in {"idle", "done"}
  /\ \E w \in 1..MaxDim, h \in 1..MaxDim, ts \in 1..MaxTileSize,
        kind \in {"grid", "quadrants", "simple"} :
       tiling' = EnterArea([TilerIdle EXCEPT !.kind = kind, !.width = w, !.height = h,
                                             !.tileSize = ts,
                                             !.region = IF kind = "quadrants" THEN 1 ELSE 0])
  /\ tileRects' = <<>>
  /\ UNCHANGED nonTilerVars

(* one pass of the inner loop: one tile, or one batch of compressWithTiling *)
TilerStep ==
  /\ tiling.pc = "tiles"
  /\ LET n == Min(Stride(tiling), TilesX(tiling) - tiling.x)
     IN  tileRects' = tileRects \o [i \in 1..n |-> TileRect(tiling, tiling.x + i - 1, tiling.y)]
  /\ tiling' = Advance(tiling)
  /\ UNCHANGED nonTilerVars

(* the loops of an area are over: the next region, or the end *)
TilerRegionDone ==
  /\ tiling.pc = "regionDone"
  /\ tiling' = IF tiling.kind = "quadrants" /\ tiling.region < 4
                 THEN EnterArea([tiling EXCEPT !.region = tiling.region + 1])
                 ELSE [tiling EXCEPT !.pc = "done"]
  /\ UNCHANGED tileRects
  /\ UNCHANGED nonTilerVars

TilerNext ==
  \/ TilerStart
  \/ TilerStep
  \/ TilerRegionDone

(***************************************************************************)
(* JPEGCompressorAdvanced.compressWithTiling: the tiles of one image are    *)
(* drawn one after the other on ONE tile canvas and sent to the worker in   *)
(* batches; processTileWithWorker falls back to processTileLocally.         *)
(* A tile's pixels are named by the tile they come from.                    *)
(***************************************************************************)
MaxTilesX == 5
MaxTilesY == 1
TileIds == 1..(MaxTilesX * MaxTilesY)

NoValue == [via |-> "none", src |-> 0]
TileIdle == [st |-> "none", timer |-> "off", listening |-> FALSE, sent |-> 0, value |-> NoValue]
TileRunIdle == [pc |-> "idle", tilesX |-> 0, tilesY |-> 0, x |-> 0, y |-> 0, outcome |-> "none"]

TileInit ==
  /\ tileRun = TileRunIdle
  /\ tileState = [t \in TileIds |-> TileIdle]
  /\ tileRequests = {}
  /\ tileCanvas = 0
  /\ fullCanvas = [t \in TileIds |-> NoValue]
  /\ tileFellBack = {}

(* the tile at column tx of row ty *)
TileAt(run, tx, ty) == ty * run.tilesX + tx + 1

(* a batch that takes the rest of the row *)
BatchWholeRow(run) ==
  [i \in 1..(run.tilesX - run.x) |-> TileAt(run, run.x + i - 1, run.y)]

(* the tiles of the batch that starts at run.x in row run.y, in loop order *)
Batch(run) ==
  [i \in 1..Min(BATCH_SIZE, run.tilesX - run.x) |-> TileAt(run, run.x + i - 1, run.y)]

InBatch(run) == {Batch(run)[i] : i \in DOMAIN Batch(run)}

(* processTileLocally, called while the tile canvas holds the pixels of tile
   `held`: getImageData reads the canvas as it is now; null on any error *)
processTileLocally(t, held, ok) == IF ok THEN [via |-> "local", src |-> held] ELSE [via |-> "null", src |-> 0]

(* resolve of a tile's promise: the first call wins *)
TileSettle(ts, value) ==
  IF ts.value # NoValue THEN ts ELSE [ts EXCEPT !.value = value, !.st = "settled"]

(* compressWithTiling up to the first batch: the full canvas holds the original
   image; initWorker succeeds, or its failure lands in the catch block *)
TilingStart ==
  /\ tileRun.pc = "idle"
  /\ \E tx \in 1..MaxTilesX, ty \in 1..MaxTilesY, workerOk \in BOOLEAN :
       /\ tileRun' = [TileRunIdle EXCEPT !.pc = IF workerOk THEN "batch" ELSE "compressWithWorker",
                                         !.tilesX = tx, !.tilesY = ty]
       /\ fullCanvas' = [t \in TileIds |->
                           IF t <= tx * ty THEN [via |-> "original", src |-> t] ELSE NoValue]
  /\ UNCHANGED <<tileState, tileRequests, tileCanvas, tileFellBack>>
  /\ UNCHANGED nonTileVars

(* the synchronous loop that builds one batch: each tile is drawn on the tile
   canvas and handed to processTileWithWorker, which reads the canvas, adds its
   listener, arms its 5 s timer and posts the tile; a post that throws falls back
   to processTileLocally at once *)
BatchDispatch ==
  /\ tileRun.pc = "batch"
  /\ \E postThrows \in {{}} \cup {{t} : t \in InBatch(tileRun)}, localOk \in BOOLEAN :
       /\ tileState' = [t \in TileIds |->
            IF t \notin InBatch(tileRun) THEN tileState[t]
            ELSE IF t \in postThrows
              THEN TileSettle([TileIdle EXCEPT !.st = "sent"], processTileLocally(t, t, localOk))
              ELSE [TileIdle EXCEPT !.st = "sent", !.timer = "armed", !.listening = TRUE, !.sent = 1]]
       /\ tileRequests' = tileRequests \cup (InBatch(tileRun) \ postThrows)
  /\ tileCanvas' = Batch(tileRun)[Len(Batch(tileRun))]
  /\ tileRun' = [tileRun EXCEPT !.pc = "awaitBatch"]
  /\ UNCHANGED <<fullCanvas, tileFellBack>>
  /\ UNCHANGED nonTileVars

(* the worker answers one of the tiles it was sent (its handler is async, so in
   any order) with tileResult or tileError; the listener of that tile, if still
   attached, takes the answer *)
WorkerTileReply ==
  /\ \E t \in tileRequests, type \in {"tileResult", "tileError"}, localOk \in BOOLEAN :
       /\ tileRequests' = tileRequests \ {t}
       /\ IF ~tileState[t].listening
            THEN UNCHANGED <<tileState, tileFellBack>>
          ELSE IF type = "tileError"
            THEN /\ tileState' = [tileState EXCEPT ![t] =
                       TileSettle([tileState[t] EXCEPT !.listening = FALSE],
                                  processTileLocally(t, tileCanvas, localOk))]
                 /\ tileFellBack' = tileFellBack \cup {t}
          ELSE /\ tileState' = [tileState EXCEPT ![t].listening = FALSE, ![t].st = "decoding"]
               /\ UNCHANGED tileFellBack
  /\ UNCHANGED <<tileRun, tileCanvas, fullCanvas>>
  /\ UNCHANGED nonTileVars

(* the answer of the worker is decoded: the image loads (resolve), the image
   fails to load (local fallback), or createImageBitmap rejects (nothing happens
   until the timer fires) *)
TileDecoded ==
  /\ \E t \in TileIds, outcome \in {"onload", "onerror", "noBitmap"}, localOk \in BOOLEAN :
       /\ tileState[t].st = "decoding"
       /\ tileState' = [tileState EXCEPT ![t] =
            IF outcome = "onload" THEN TileSettle(tileState[t], [via |-> "worker", src |-> t])
            ELSE IF outcome = "onerror"
              THEN TileSettle(tileState[t], processTileLocally(t, tileCanvas, localOk))
            ELSE [tileState[t] EXCEPT !.st = "undecodable"]]
  /\ UNCHANGED <<tileRun, tileRequests, tileCanvas, fullCanvas, tileFellBack>>
  /\ UNCHANGED nonTileVars

(* the 5 s timer of a tile fires (it is never cleared once the tile was posted);
   timers armed in the same loop fire in the order they were armed *)
TileTimeout ==
  /\ \E t \in TileIds, localOk \in BOOLEAN :
       /\ tileState[t].timer = "armed"
       /\ \A u \in 1..(t - 1) : tileState[u].timer # "armed"
       /\ tileState' = [tileState EXCEPT ![t] =
            TileSettle([tileState[t] EXCEPT !.timer = "off", !.listening = FALSE],
                       processTileLocally(t, tileCanvas, localOk))]
       /\ tileFellBack' = IF tileState[t].value = NoValue /\ tileState[t].listening
                            THEN tileFellBack \cup {t} ELSE tileFellBack
  /\ UNCHANGED <<tileRun, tileRequests, tileCanvas, fullCanvas>>
  /\ UNCHANGED nonTileVars

(* the loop headers after a batch: the next batch of the row, the next row, or
   the end of the tiles *)
AfterBatch(run) ==
  IF run.x + BATCH_SIZE < run.tilesX THEN [run EXCEPT !.pc = "batch", !.x = run.x + BATCH_SIZE]
  ELSE IF run.y + 1 < run.tilesY THEN [run EXCEPT !.pc = "batch", !.x = 0, !.y = run.y + 1]
  ELSE [run EXCEPT !.pc = "findOptimalQuality"]

(* Promise.allSettled of the batch: every fulfilled, non-null result is drawn on
   the full canvas at its own x, y.  What is left of the batch (a timer still
   armed, an answer still on its way or being decoded) can only call resolve on
   a settled promise, with its listener already removed: it is dropped here. *)
BatchSettled ==
  /\ tileRun.pc = "awaitBatch"
  /\ \A t \in InBatch(tileRun) : tileState[t].value # NoValue
  /\ fullCanvas' = [t \in TileIds |->
       IF t \in InBatch(tileRun) /\ tileState[t].value.via # "null"
         THEN tileState[t].value ELSE fullCanvas[t]]
  /\ tileRun' = AfterBatch(tileRun)
  /\ tileState' = [t \in TileIds |->
       IF t \in InBatch(tileRun) THEN [tileState[t] EXCEPT !.timer = "off", !.st = "settled"]
       ELSE tileState[t]]
  /\ tileRequests' = tileRequests \ InBatch(tileRun)
  /\ UNCHANGED <<tileCanvas, tileFellBack>>
  /\ UNCHANGED nonTileVars

(* findOptimalQuality on the full canvas: an encoding that fits, or the
   minimum-quality encoding is too large (compressWithProgressiveJPEG is sent to
   the worker), or canvasToBlob fails and the catch block of compressWithTiling
   hands the file to compressWithWorker *)
TileQualitySearch ==
  /\ tileRun.pc = "findOptimalQuality"
  /\ \E outcome \in {"fits", "minTooLarge", "throws"} :
       tileRun' = IF outcome = "fits" THEN [tileRun EXCEPT !.pc = "returned", !.outcome = "result"]
                  ELSE IF outcome = "minTooLarge" THEN [tileRun EXCEPT !.pc = "compressWithProgressiveJPEG"]
                  ELSE [tileRun EXCEPT !.pc = "compressWithWorker"]
  /\ UNCHANGED <<tileState, tileRequests, tileCanvas, fullCanvas, tileFellBack>>
  /\ UNCHANGED nonTileVars

(* the worker answers compressProgressive: its result, or on error the
   minimum-quality blob of findOptimalQuality *)
TileProgressiveReply ==
  /\ tileRun.pc = "compressWithProgressiveJPEG"
  /\ tileRun' = [tileRun EXCEPT !.pc = "returned", !.outcome = "result"]
  /\ UNCHANGED <<tileState, tileRequests, tileCanvas, fullCanvas, tileFellBack>>
  /\ UNCHANGED nonTileVars

(* the worker answers compressWithWorker with a result or an error *)
TileWorkerReply ==
  /\ tileRun.pc = "compressWithWorker"
  /\ \E type \in {"result", "error"} :
       tileRun' = [tileRun EXCEPT !.pc = "returned",
                                  !.outcome = IF type = "result" THEN "result" ELSE "error"]
  /\ UNCHANGED <<tileState, tileRequests, tileCanvas, fullCanvas, tileFellBack>>
  /\ UNCHANGED nonTileVars

TileNext ==
  \/ TilingStart
  \/ BatchDispatch
  \/ WorkerTileReply
  \/ TileDecoded
  \/ TileTimeout
  \/ BatchSettled
  \/ TileQualitySearch
  \/ TileProgressiveReply
  \/ TileWorkerReply

(***************************************************************************)
(* The quality searches: JPEGCompressorAdvanced.findOptimalQuality,         *)
(* JPEGCompressor.compress, findOptimalCompression of the JPEG worker and   *)
(* PNGCompressorAdvanced.findOptimalQuality.                                *)
(* Qualities are counted in units of 1/51200, so that every midpoint of the *)
(* binary search is a whole number; sizes are in KB.                        *)
(***************************************************************************)
QUnit == 51200
PerCent == 512
MIN_QUALITY == 5120
MAX_QUALITY == 48640
QUALITY_PRECISION == 512
SIMPLE_TARGET_SIZE == 100 * KB
CLOSE_ENOUGH == 1536
WORKER_CLOSE_ENOUGH == 2560
WORKER_MIN_ITERATIONS == 5
PNG_QUALITY_LEVELS == <<40960, 30720, 20480, 10240>>
PNG_LOWEST_QUALITY == 5120
PROGRESSIVE_QUALITY_LEVELS == <<35840, 25600, 15360, 5120>>

(* Math.ceil(Math.log2(range / precision)) *)
RECURSIVE CeilLog2(_, _)
CeilLog2(range, precision) ==
  IF precision >= range THEN 0 ELSE 1 + CeilLog2(range, 2 * precision)

MaxIterations == CeilLog2(MAX_QUALITY - MIN_QUALITY, QUALITY_PRECISION) + 2

(* An image, as far as its encoders go: the size of its encoding at quality q
   grows with q by `slope` KB per 0.01 from `base` KB, except inside a window of
   qualities [dipLo, dipHi] (empty when dipLo > dipHi) where the encoder does
   much better; a progressive encoding saves `saving` KB. *)
SearchFileSizes == {80, 3000}
SearchBases == {30, 150}
SearchSlopes == {0, 2}
SearchDips == {<<1, 0>>, <<30720, 46080>>, <<25600, 28160>>}
SearchSavings == {0, 100}
SearchTargets == {20, 100, 250}
DipSize == 10

Images ==
  [fileSize : SearchFileSizes, base : SearchBases, slope : SearchSlopes,
   dip : SearchDips, saving : SearchSavings]

NoImage == [fileSize |-> 0, base |-> 0, slope |-> 0, dip |-> <<1, 0>>, saving |-> 0]

EncodedSize(img, q) ==
  IF img.dip[1] <= q /\ q <= img.dip[2] THEN DipSize
  ELSE img.base + img.slope * (q \div PerCent)

ProgressiveSize(img, q) ==
  IF EncodedSize(img, q) > img.saving THEN EncodedSize(img, q) - img.saving ELSE 1

NoBlob == [encoding |-> "none", quality |-> 0, size |-> 0]
NoSearchResult == [blob |-> NoBlob, quality |-> 0]

(* canvasToBlob(canvas, quality) / compressWithQuality(file, quality) *)
canvasToBlob(img, q) == [encoding |-> "baseline", quality |-> q, size |-> EncodedSize(img, q)]

(* the file itself, returned unchanged *)
FileBlob(img) == [encoding |-> "file", quality |-> 0, size |-> img.fileSize]

(* blob.size <= targetSize *)
FitsWithSlack(blob, targetSize) == blob.size <= targetSize + DipSize

Fits(blob, targetSize) == blob.size <= targetSize

SearchFns == {"jpegAdvanced", "jpegSimple", "jpegWorker", "pngAdvanced"}

SearchIdle ==
  [fn |-> "none", pc |-> "idle", img |-> NoImage, targetSize |-> 0,
   minQuality |-> 0, maxQuality |-> 0, bestQuality |-> 0, bestBlob |-> NoBlob,
   iteration |-> 0, minBlob |-> NoBlob, progressive |-> "none", result |-> NoSearchResult,
   probesAtMax |-> 0, probesAtMin |-> 0]

SearchReturn(s, blob, quality) ==
  [s EXCEPT !.pc = "returned", !.result = [blob |-> blob, quality |-> quality]]

(* the binary search variables at their initial values *)
EnterLoop(s, bestQuality) ==
  [s EXCEPT !.pc = "loop", !.minQuality = MIN_QUALITY, !.maxQuality = MAX_QUALITY,
            !.bestQuality = bestQuality]

(* a search is called on an image with a target *)
SearchStart ==
  /\ search.pc \in {"idle", "returned", "threw"}
  /\ \E fn \in SearchFns, img \in Images, target \in SearchTargets :
       LET s == [SearchIdle EXCEPT !.fn = fn, !.img = img,
                   !.targetSize = IF fn = "jpegSimple" THEN SIMPLE_TARGET_SIZE ELSE target]
       IN  search' =
             IF fn = "jpegAdvanced" THEN [s EXCEPT !.pc = "probeMax"]
             ELSE IF fn = "pngAdvanced" THEN [s EXCEPT !.pc = "levels"]
             ELSE IF img.fileSize <= s.targetSize THEN SearchReturn(s, FileBlob(img), QUnit)
             ELSE EnterLoop(s, IF fn = "jpegSimple" THEN MAX_QUALITY ELSE MIN_QUALITY)
  /\ UNCHANGED nonSearchVars

(* JPEGCompressorAdvanced.findOptimalQuality first encodes at maximum quality *)
SearchProbeMax ==
  /\ search.pc = "probeMax"
  /\ LET maxQualityBlob == canvasToBlob(search.img, MAX_QUALITY)
         s == [search EXCEPT !.probesAtMax = search.probesAtMax + 1]
     IN  search' = IF Fits(maxQualityBlob, search.targetSize)
                     THEN SearchReturn(s, maxQualityBlob, MAX_QUALITY)
                     ELSE EnterLoop(s, MIN_QUALITY)
  /\ UNCHANGED nonSearchVars

(* the condition of the while loop *)
LoopContinues(s) ==
  /\ s.maxQuality - s.minQuality > QUALITY_PRECISION
  /\ s.fn = "jpegAdvanced" => s.iteration < MaxIterations

(* a break as soon as some encoding fits *)
EarlyStopAtFirstFit(s) ==
  /\ s.bestBlob # NoBlob
  /\ s.fn \in {"jpegAdvanced", "jpegWorker"}

(* the break at the end of the loop body *)
EarlyStop(s) ==
  /\ s.bestBlob # NoBlob
  /\ \/ /\ s.fn = "jpegAdvanced"
        /\ \/ s.maxQuality - s.minQuality < CLOSE_ENOUGH
           \/ s.iteration >= MaxIterations - 1
     \/ /\ s.fn = "jpegWorker"
        /\ s.iteration > WORKER_MIN_ITERATIONS
        /\ s.maxQuality - s.minQuality < WORKER_CLOSE_ENOUGH

(* one pass of the loop body: encode at the middle quality and halve the range *)
LoopBodyLinear(s) ==
  LET midQuality == s.maxQuality - QUALITY_PRECISION
      blob == canvasToBlob(s.img, midQuality)
  IN  IF Fits(blob, s.targetSize)
        THEN [s EXCEPT !.iteration = s.iteration + 1, !.bestQuality = midQuality,
                       !.bestBlob = blob, !.minQuality = midQuality]
        ELSE [s EXCEPT !.iteration = s.iteration + 1, !.maxQuality = midQuality]

LoopBody(s) ==
  LET midQuality == (s.minQuality + s.maxQuality) \div 2
      blob == canvasToBlob(s.img, midQuality)
  IN  IF Fits(blob, s.targetSize)
        THEN [s EXCEPT !.iteration = s.iteration + 1, !.bestQuality = midQuality,
                       !.bestBlob = blob, !.minQuality = midQuality]
        ELSE [s EXCEPT !.iteration = s.iteration + 1, !.maxQuality = midQuality]

SearchIterate ==
  /\ search.pc = "loop"
  /\ LET s == LoopBody(search)
     IN  search' = IF EarlyStop(s) \/ ~LoopContinues(s) THEN [s EXCEPT !.pc = "afterLoop"] ELSE s
  /\ UNCHANGED nonSearchVars

(* what the search does when even the minimum quality is too large *)
MinTooLarge(s, blob) ==
  IF s.fn = "jpegAdvanced" THEN [s EXCEPT !.pc = "compressWithProgressiveJPEG", !.minBlob = blob]
  ELSE IF s.fn = "jpegWorker" THEN SearchReturn(s, blob, MIN_QUALITY)
  ELSE [s EXCEPT !.pc = "threw"]

(* after the loop: the best encoding found, else the minimum quality is tried *)
SearchAfterLoop ==
  /\ search.pc = "afterLoop"
  /\ LET blob == canvasToBlob(search.img, MIN_QUALITY)
         s == [search EXCEPT !.probesAtMin = search.probesAtMin + 1]
     IN  search' =
           IF search.bestBlob # NoBlob
             THEN SearchReturn(search, search.bestBlob, search.bestQuality)
           ELSE IF Fits(blob, search.targetSize) THEN SearchReturn(s, blob, MIN_QUALITY)
           ELSE MinTooLarge(s, blob)
  /\ UNCHANGED nonSearchVars

(* the compressProgressive handler of the worker: the first level that fits, kept
   only if its quality is above MIN_QUALITY; else a plain progressive encoding
   at MIN_QUALITY *)
ProgressiveResult(img, targetSize) ==
  LET levels == PROGRESSIVE_QUALITY_LEVELS
      fitting == {i \in DOMAIN levels : ProgressiveSize(img, levels[i]) <= targetSize}
      first == CHOOSE i \in fitting : \A j \in fitting : i <= j
  IN  IF fitting # {} /\ levels[first] > MIN_QUALITY
        THEN [blob |-> [encoding |-> "progressive", quality |-> levels[first],
                        size |-> ProgressiveSize(img, levels[first])],
              quality |-> levels[first]]
        ELSE [blob |-> [encoding |-> "progressiveBasic", quality |-> MIN_QUALITY,
                        size |-> ProgressiveSize(img, MIN_QUALITY)],
              quality |-> MIN_QUALITY]

(* compressWithProgressiveJPEG fails: the minimum-quality encoding is returned *)
ProgressiveFailedReturnsBest(s) == SearchReturn(s, s.bestBlob, s.bestQuality)

ProgressiveFailed(s) == SearchReturn(s, s.minBlob, MIN_QUALITY)

(* compressWithProgressiveJPEG settles: the worker's result, or an error (from the
   worker, or canvas.toBlob gave no blob) *)
SearchProgressiveSettled ==
  /\ search.pc = "compressWithProgressiveJPEG"
  /\ \E type \in {"result", "error"} :
       search' =
         IF type = "result"
           THEN LET r == ProgressiveResult(search.img, search.targetSize)
                IN  [SearchReturn(search, r.blob, r.quality) EXCEPT !.progressive = "result"]
           ELSE [ProgressiveFailed(search) EXCEPT !.progressive = "error"]
  /\ UNCHANGED nonSearchVars

(* PNGCompressorAdvanced.findOptimalQuality: one level per pass, then the lowest *)
SearchPngLevel ==
  /\ search.pc = "levels"
  /\ search' =
       IF search.iteration < Len(PNG_QUALITY_LEVELS)
         THEN LET quality == PNG_QUALITY_LEVELS[search.iteration + 1]
                  blob == canvasToBlob(search.img, quality)
              IN  IF Fits(blob, search.targetSize) THEN SearchReturn(search, blob, quality)
                  ELSE [search EXCEPT !.iteration = search.iteration + 1]
         ELSE SearchReturn(search, canvasToBlob(search.img, PNG_LOWEST_QUALITY), PNG_LOWEST_QUALITY)
  /\ UNCHANGED nonSearchVars

SearchNext ==
  \/ SearchStart
  \/ SearchProbeMax
  \/ SearchIterate
  \/ SearchAfterLoop
  \/ SearchProgressiveSettled
  \/ SearchPngLevel

(***************************************************************************)
(* The page: Home.handleCompress and the other handlers.                   *)
(***************************************************************************)
PAGE_PNG_TARGET == 800 * KB
ConvertedSizes == {900, 6 * MB}

(* timeoutMs of the timeoutPromise handleCompress races the advanced PNG
   compressor against *)
PngTimeoutMs(size) ==
  IF size > 15 * MB THEN 300000
  ELSE IF size > 8 * MB THEN 180000
  ELSE 120000

(* timeoutMs of the timeoutPromise of the advanced JPEG branch *)
JpegTimeoutMs(size) == IF size > 15 * MB THEN 60000 ELSE 30000

HcIdle == [pc |-> "idle", image |-> NoFile, fileToProcess |-> NoFile, timeoutMs |-> 0]
NoCompressedResult == [method |-> "none", of |-> NoFile]

Settled(a) == a.pc \in {"resolved", "rejected"}

FILE_API_MESSAGE == "Your browser does not support the File API required for this application to work."

(* the mount effects, run once: checkSupport (Worker and OffscreenCanvas exist)
   and the File API test, the only place that calls setError with a message *)
checkSupport ==
  /\ ~mounted
  /\ mounted' = TRUE
  /\ \E supported \in BOOLEAN : supportsAdvancedFeatures' = supported
  /\ \E fileApi \in BOOLEAN : error' = IF fileApi THEN Null ELSE FILE_API_MESSAGE
  /\ UNCHANGED <<originalImage, compressedResult, isCompressing, convertToJpeg, hc,
                 timeoutPromise, pageTrace>>
  /\ UNCHANGED advVars
  /\ UNCHANGED nonPageVars

UPLOAD_MAX_SIZE == 20 * MB

(* validateFile of ImageUploader: only a JPEG or PNG of at most 20 MB is handed
   to onImageUpload *)
validateFile(file) ==
  /\ file.type \in {"image/jpeg", "image/png"}
  /\ file.size <= UPLOAD_MAX_SIZE

(* handleImageUpload: the uploader is rendered only while originalImage is
   null, which handleReset makes it even while handleCompress is running.  (The
   second conjunct keeps the page apart from a compress() called outside it.) *)
handleImageUpload ==
  /\ mounted
  /\ originalImage = NoFile
  /\ adv.kind # "none" => hc.pc # "idle"
  /\ \E file \in Files : validateFile(file) /\ originalImage' = file
  /\ compressedResult' = NoCompressedResult
  /\ convertToJpeg' = FALSE
  /\ UNCHANGED <<isCompressing, supportsAdvancedFeatures, mounted, hc, timeoutPromise, pageTrace>>
  /\ UNCHANGED advVars
  /\ UNCHANGED nonPageVars
  /\ error' = Null

(* handleConvertToJpegChange: the checkbox is rendered for a PNG with no result yet *)
handleConvertToJpegChange ==
  /\ originalImage # NoFile
  /\ originalImage.type = "image/png"
  /\ compressedResult = NoCompressedResult
  /\ ~isCompressing
  /\ convertToJpeg' = ~convertToJpeg
  /\ UNCHANGED <<originalImage, compressedResult, isCompressing, supportsAdvancedFeatures, mounted,
                 hc, timeoutPromise, pageTrace>>
  /\ UNCHANGED advVars
  /\ UNCHANGED nonPageVars
  /\ UNCHANGED error

(* handleReset: the Start Over button is rendered whenever an image is loaded *)
handleReset ==
  /\ originalImage # NoFile
  /\ originalImage' = NoFile
  /\ compressedResult' = NoCompressedResult
  /\ convertToJpeg' = FALSE
  /\ UNCHANGED <<isCompressing, supportsAdvancedFeatures, mounted, hc, timeoutPromise, pageTrace>>
  /\ UNCHANGED advVars
  /\ UNCHANGED nonPageVars
  /\ error' = Null

(* handleCompress from the format detection to its first await, for the file to
   process f of the image img. *)
HCRoute(img, f) ==
  LET isJPEG == f.type = "image/jpeg"
      isPNG == f.type = "image/png"
      isLargeImage == f.size > 1 * MB
      call == IF isPNG THEN PngCompressCall(f, PAGE_PNG_TARGET) ELSE JpegCompressCall(f)
  IN  IF ~isJPEG /\ ~isPNG
        THEN /\ hc' = HcIdle
             /\ isCompressing' = FALSE
             /\ pageTrace' = <<"Error">>
             /\ UNCHANGED <<timeoutPromise, adv, advTrace, advStages>>
      ELSE IF supportsAdvancedFeatures /\ isLargeImage
        THEN /\ hc' = [pc |-> "awaitAdvanced", image |-> img, fileToProcess |-> f,
                       timeoutMs |-> IF isPNG THEN PngTimeoutMs(f.size)
                                              ELSE JpegTimeoutMs(f.size)]
             /\ isCompressing' = TRUE
             /\ timeoutPromise' = "pending"
             /\ adv' = call.a
             /\ advTrace' = call.t
             /\ advStages' = call.s
             /\ pageTrace' = <<"Advanced">>
      ELSE /\ hc' = [pc |-> "awaitSimple", image |-> img, fileToProcess |-> f, timeoutMs |-> 0]
           /\ isCompressing' = TRUE
           /\ pageTrace' = <<"Simple">>
           /\ UNCHANGED <<timeoutPromise, adv, advTrace, advStages>>

(* handleCompress: the Compress button is rendered while there is no result and
   no compression is running *)
handleCompress ==
  /\ originalImage # NoFile
  /\ compressedResult = NoCompressedResult
  /\ ~isCompressing
  /\ hc.pc = "idle"
  /\ IF originalImage.type = "image/png" /\ convertToJpeg
       THEN /\ hc' = [pc |-> "converting", image |-> originalImage,
                      fileToProcess |-> originalImage, timeoutMs |-> 0]
            /\ isCompressing' = TRUE
            /\ pageTrace' = <<>>
            /\ UNCHANGED <<timeoutPromise, adv, advTrace, advStages>>
       ELSE HCRoute(originalImage, originalImage)
  /\ UNCHANGED <<originalImage, compressedResult, convertToJpeg, supportsAdvancedFeatures, mounted>>
  /\ UNCHANGED nonPageVars
  /\ error' = Null

(* await convertPngToJpeg: on failure the original PNG is processed *)
HCConvertDone ==
  /\ hc.pc = "converting"
  /\ \E ok \in BOOLEAN, sz \in ConvertedSizes :
       HCRoute(hc.image, IF ok THEN [type |-> "image/jpeg", size |-> sz] ELSE hc.image)
  /\ UNCHANGED <<originalImage, compressedResult, convertToJpeg, supportsAdvancedFeatures, mounted>>
  /\ UNCHANGED nonPageVars
  /\ UNCHANGED error

(* The end of handleCompress (its finally block).  The compressor instance is a
   local of handleCompress: nothing refers to it afterwards. *)
HCFinish(result, events) ==
  /\ hc' = HcIdle
  /\ isCompressing' = FALSE
  /\ compressedResult' = result
  /\ pageTrace' = pageTrace \o events
  /\ adv' = AdvIdle
  /\ advTrace' = <<>>
  /\ advStages' = <<>>

(* Promise.race is still undecided: its continuation has not run.  A promise
   settles once, so after the deadline won the race a settlement of the advanced
   compressor's promise has no continuation left in handleCompress. *)
RaceOpenAfterDeadline == hc.pc \in {"awaitAdvanced", "awaitSimple"} /\ pageTrace[1] = "Advanced"

RaceOpen == hc.pc = "awaitAdvanced"

(* Promise.race settles with the advanced compressor's promise *)
HCAdvancedSettled ==
  /\ RaceOpen
  /\ Settled(adv)
  /\ IF adv.pc = "resolved"
       THEN HCFinish([method |-> "advanced", of |-> hc.image], <<"Result">>)
       ELSE /\ hc' = [hc EXCEPT !.pc = "awaitSimple"]
            /\ pageTrace' = pageTrace \o <<"AdvancedFailed", "Simple">>
            /\ UNCHANGED <<isCompressing, compressedResult, adv, advTrace, advStages>>
  /\ UNCHANGED <<originalImage, convertToJpeg, supportsAdvancedFeatures, mounted, timeoutPromise>>
  /\ UNCHANGED nonPageVars
  /\ UNCHANGED error

(* The size-dependent deadline fires first: Promise.race rejects, the catch block
   starts the simple compressor, the advanced compressor keeps running. *)
PageTimeoutIgnored ==
  /\ timeoutPromise' = "rejected"
  /\ UNCHANGED <<hc, pageTrace>>

PageTimeoutFallback ==
  /\ timeoutPromise' = "rejected"
  /\ hc' = [hc EXCEPT !.pc = "awaitSimple"]
  /\ pageTrace' = pageTrace \o <<"AdvancedTimedOut", "Simple">>

PageTimeout ==
  /\ hc.pc = "awaitAdvanced"
  /\ timeoutPromise = "pending"
  /\ ~Settled(adv)
  /\ PageTimeoutFallback
  /\ UNCHANGED <<originalImage, compressedResult, isCompressing, convertToJpeg,
                 supportsAdvancedFeatures, mounted>>
  /\ UNCHANGED advVars
  /\ UNCHANGED nonPageVars
  /\ UNCHANGED error

(* The simple compressor (PNGCompressor / JPEGCompressor) settles; an error is
   caught by the outer catch of handleCompress. *)
HCSimpleDone ==
  /\ hc.pc = "awaitSimple"
  /\ \E ok \in BOOLEAN :
       IF ok THEN HCFinish([method |-> "simple", of |-> hc.image], <<"Result">>)
             ELSE HCFinish(compressedResult, <<"SimpleFailed", "Error">>)
  /\ UNCHANGED <<originalImage, convertToJpeg, supportsAdvancedFeatures, mounted, timeoutPromise>>
  /\ UNCHANGED nonPageVars
  /\ UNCHANGED error

(* A call of the public compress() of an advanced compressor, outside a page run.
   The page creates a private instance per run, so the two uses never share one. *)
CompressDirect ==
  /\ hc.pc = "idle"
  /\ originalImage = NoFile
  /\ adv.kind = "none"
  /\ compressedResult = NoCompressedResult
  /\ \E file \in Files, optTarget \in {0, PAGE_PNG_TARGET}, kind \in {"png", "jpeg"} :
       LET call == IF kind = "png" THEN PngCompressCall(file, optTarget)
                                   ELSE JpegCompressCall(file)
       IN  /\ adv' = call.a
           /\ advTrace' = call.t
           /\ advStages' = call.s
  /\ UNCHANGED pageVars
  /\ UNCHANGED nonPageVars

(* The caller of CompressDirect drops its compressor instance *)
CompressDiscard ==
  /\ hc.pc = "idle"
  /\ originalImage = NoFile
  /\ adv.kind # "none"
  /\ adv' = AdvIdle
  /\ advTrace' = <<>>
  /\ advStages' = <<>>
  /\ UNCHANGED pageVars
  /\ UNCHANGED nonPageVars

PageNext ==
  \/ checkSupport
  \/ handleImageUpload
  \/ handleConvertToJpegChange
  \/ handleReset
  \/ handleCompress
  \/ HCConvertDone
  \/ HCAdvancedSettled
  \/ PageTimeout
  \/ HCSimpleDone

(***************************************************************************)
(* compress() of the four compressors from its entry checks to its result: *)
(* the type check, the maximum size, the test of the file against the      *)
(* target size, and the kinds of work the call has done.  Qualities are in *)
(* per cent here.                                                          *)
(***************************************************************************)
Compressors == {"PNGCompressorAdvanced", "JPEGCompressorAdvanced", "PNGCompressor", "JPEGCompressor"}

(* supportedTypes of each compressor *)
SupportedTypes(c) ==
  IF c \in {"PNGCompressorAdvanced", "PNGCompressor"} THEN {"image/png"} ELSE {"image/jpeg"}

(* only the advanced compressors define MAX_SIZE *)
HasMaxSizePngOnly(c) == c = "PNGCompressorAdvanced"

HasMaxSize(c) == c \in {"PNGCompressorAdvanced", "JPEGCompressorAdvanced"}

PNG_SIMPLE_TARGET_SIZE == 200 * KB

(* the target size each compressor compares the file with *)
EntryTarget(c, size, optTarget) ==
  CASE c = "PNGCompressorAdvanced" -> IF optTarget # 0 THEN optTarget ELSE PNG_TARGET_SIZE_BASE
    [] c = "JPEGCompressorAdvanced" -> JpegTargetSize(size)
    [] c = "PNGCompressor" -> PNG_SIMPLE_TARGET_SIZE
    [] c = "JPEGCompressor" -> SIMPLE_TARGET_SIZE

(* file.size <= targetSize *)
AlreadyFitsReversed(size, target) == size >= target

AlreadyFits(size, target) == size <= target

(* qualities an encoding strategy can report *)
EncodedQualities == {10, 95}

(* the kinds of work the strategies of a compressor do *)
StrategyWork(c) ==
  CASE c = "PNGCompressorAdvanced" ->
         {"workerPool", "canvasPool", "decoding", "quantization", "encoding"}
    [] c = "JPEGCompressorAdvanced" -> {"workerAcquisition", "decoding", "encoding"}
    [] c = "PNGCompressor" -> {"decoding", "classification", "quantization", "encoding"}
    [] c = "JPEGCompressor" -> {"decoding", "encoding"}

EntryIdle == [compressor |-> "none", pc |-> "idle", file |-> NoFile, targetSize |-> 0,
              work |-> {}, result |-> NoResult]

EntryReturn(c, blob, quality, work) ==
  [c EXCEPT !.pc = "returned", !.work = c.work \cup work,
            !.result = [by |-> c.pc, blob |-> blob, quality |-> quality]]

EntryThrow(c, work) == [c EXCEPT !.pc = "threw", !.work = c.work \cup work]

(* compress(file, options) up to its first await *)
EntryCompress ==
  /\ entry.pc \in {"idle", "returned", "threw"}
  /\ \E c \in Compressors, file \in Files, optTarget \in {0, PAGE_PNG_TARGET} :
       /\ c # "PNGCompressorAdvanced" => optTarget = 0
       /\ LET target == EntryTarget(c, file.size, optTarget)
               base == [EntryIdle EXCEPT !.compressor = c, !.file = file, !.targetSize = target]
          IN  entry' =
                IF file.type \notin SupportedTypes(c) THEN EntryThrow(base, {})
                ELSE IF HasMaxSize(c) /\ file.size > MAX_SIZE THEN EntryThrow(base, {})
                ELSE IF c = "JPEGCompressorAdvanced"
                  THEN [base EXCEPT !.pc = IF file.size > 5 * MB THEN "strategy" ELSE "worker"]
                ELSE IF AlreadyFits(file.size, target) THEN [base EXCEPT !.pc = "fileToDataURL"]
                ELSE [base EXCEPT !.pc = "strategy"]
  /\ UNCHANGED nonEntryVars

(* await this.fileToDataURL(file); return { blob: file, dataUrl, quality: 1.0 } *)
EntryFileRead ==
  /\ entry.pc = "fileToDataURL"
  /\ \E ok \in BOOLEAN :
       entry' = IF ok THEN EntryReturn(entry, Blob("file", entry.file), 100, {"readFile"})
                     ELSE EntryThrow(entry, {"readFile"})
  /\ UNCHANGED nonEntryVars

(* JPEGCompressorAdvanced.compressWithWorker: the worker runs
   findOptimalCompression, which returns the file itself when it fits the target *)
EntryWorkerAnswer ==
  /\ entry.pc = "worker"
  /\ \E type \in {"result", "error"}, q \in EncodedQualities :
       entry' =
         IF type = "error" THEN EntryThrow(entry, {"workerAcquisition", "readFile"})
         ELSE IF AlreadyFits(entry.file.size, entry.targetSize)
           THEN EntryReturn(entry, Blob("file", entry.file), 100,
                            {"workerAcquisition", "readFile", "decoding"})
         ELSE EntryReturn(entry, Blob("encodedByWorker", entry.file), q,
                          {"workerAcquisition", "readFile", "decoding", "encoding"})
  /\ UNCHANGED nonEntryVars

(* the strategies of the compressor run on a file above the target *)
EntryStrategyDone ==
  /\ entry.pc = "strategy"
  /\ \E ok \in BOOLEAN, q \in EncodedQualities :
       entry' = IF ok THEN EntryReturn(entry, Blob("encoded", entry.file), q,
                                      StrategyWork(entry.compressor))
                     ELSE EntryThrow(entry, StrategyWork(entry.compressor))
  /\ UNCHANGED nonEntryVars

EntryNext ==
  \/ EntryCompress
  \/ EntryFileRead
  \/ EntryWorkerAnswer
  \/ EntryStrategyDone

(***************************************************************************)
(* PNGCompressor.analyzeImageType on the counts its sampling loop gathers.  *)
(* A ratio is compared with its threshold by cross-multiplication; the      *)
(* count levels below keep away from the exact thresholds, where the        *)
(* rounding of the floating-point quotient would decide.                    *)
(***************************************************************************)
MAX_SAMPLE_SIZE == 300
SAMPLE_GRID == 50

(* sampleSize = Math.min(img.width, img.height, 300), for some image sizes *)
ImageSides == {10, 101, 299, 300, 640}
sampleSizeOf(side) == Min(side, MAX_SAMPLE_SIZE)

(* stride = Math.max(1, Math.floor(sampleSize / 50)) *)
sampleStride(sampleSize) == Max(1, FloorDiv(sampleSize, SAMPLE_GRID))

(* totalSampledPixels *)
totalSampledPixels(sampleSize) ==
  FloorDiv(sampleSize, sampleStride(sampleSize)) * FloorDiv(sampleSize, sampleStride(sampleSize))

(* the pixels the two for loops visit: y and x run over 0, stride, 2 stride, ...
   below sampleSize *)
VisitedPixels(sampleSize) ==
  CeilDiv(sampleSize, sampleStride(sampleSize)) * CeilDiv(sampleSize, sampleStride(sampleSize))

(* the pixels that have a right and a bottom neighbour one stride away *)
EdgeCandidates(sampleSize) ==
  LET perAxis == Cardinality({k \in 0..(CeilDiv(sampleSize, sampleStride(sampleSize)) - 1) :
                               k * sampleStride(sampleSize) < sampleSize - sampleStride(sampleSize)})
  IN  perAxis * perAxis

(* Counts of the loop, as shares (in per cent) of the visited pixels. *)
BlackWhiteLevels == {0, 77, 85}
GrayLevels == {0, 10, 15}
UniqueColorLevels == {10, 30, 60}
EdgeLevels == {0, 7, 15, 25}
TransparentLevels == {0, 5}

(* colour keys floor(c / 5) that black (c < 30) and white (c > 225) pixels can have *)
BlackWhiteKeys == 6 * 6 * 6 + 7 * 7 * 7

Share(level, n) == (level * n) \div 100

(* the decision table of analyzeImageType for given counts and divisor *)
imageTypeOf(c, total) ==
  LET blackWhiteOver80 == 10 * c.blackWhite > 8 * total
      withGrayOver90 == 10 * (c.blackWhite + c.gray) > 9 * total
      edgeOver5 == 100 * c.edgeCount > 5 * total
      colorOver50 == 10 * c.uniqueColors > 5 * total
      edgeUnder10 == 10 * c.edgeCount < total
      colorUnder20 == 10 * c.uniqueColors < 2 * total
      edgeOver20 == 10 * c.edgeCount > 2 * total
      hasTransparency == c.transparentPixels > 0
  IN  IF (blackWhiteOver80 \/ withGrayOver90) /\ edgeOver5 THEN "lineart"
      ELSE IF colorOver50 /\ edgeUnder10 THEN "photographic"
      ELSE IF colorUnder20 \/ edgeOver20 \/ hasTransparency THEN "graphical"
      ELSE "mixed"

NoCounts == [blackWhite |-> 0, gray |-> 0, uniqueColors |-> 0, edgeCount |-> 0,
             transparentPixels |-> 0]

(* An opaque colour, and a checkerboard of two colours: square, its cells
   `cell` pixels wide (less than the side, so that both colours occur), the
   cell at the origin of colour a.  The boards are at
   most MAX_SAMPLE_SIZE wide, so that drawImage copies them to the sample
   canvas pixel by pixel. *)
Colour(r, g, b) == [r |-> r, g |-> g, b |-> b]
Black == Colour(0, 0, 0)
White == Colour(255, 255, 255)
Gray == Colour(128, 128, 128)
Red == Colour(255, 0, 0)
Crimson == Colour(200, 0, 0)
Blue == Colour(0, 0, 255)
CheckerColours == {Black, White, Gray, Red, Crimson, Blue}
CheckerSides == {2, 3, 4, 100, 299}
CheckerCells == {1, 2, 3, 50}
NoBoard == [side |-> 0, cell |-> 0, a |-> Black, b |-> Black]
Checkerboards ==
  {[side |-> side, cell |-> cell, a |-> a, b |-> b] :
     side \in CheckerSides, cell \in CheckerCells, a \in CheckerColours, b \in CheckerColours}

(* data[i], data[i + 1], data[i + 2] of the pixel at (x, y) of a board *)
PixelAt(board, x, y) ==
  IF ((x \div board.cell) + (y \div board.cell)) % 2 = 0 THEN board.a ELSE board.b

Abs(n) == IF n < 0 THEN -n ELSE n

(* the buckets of the sampling loop *)
isBlack(c) == c.r < 30 /\ c.g < 30 /\ c.b < 30
isWhite(c) == c.r > 225 /\ c.g > 225 /\ c.b > 225
isGray(c) ==
  /\ ~isBlack(c)
  /\ ~isWhite(c)
  /\ Abs(c.r - c.g) < 20 /\ Abs(c.r - c.b) < 20 /\ Abs(c.g - c.b) < 20

(* colorKey: the channels with reduced precision *)
colorKey(c) == <<c.r \div 5, c.g \div 5, c.b \div 5>>

(* colorDiff1 and colorDiff2 *)
colorDiff(c, d) == Abs(c.r - d.r) + Abs(c.g - d.g) + Abs(c.b - d.b)

(* the pixels (x, y) the two for loops visit *)
SampledPixels(sampleSize) ==
  LET stride == sampleStride(sampleSize)
      axis == {k * stride : k \in 0..(CeilDiv(sampleSize, stride) - 1)}
  IN  axis \X axis

(* uniqueColors.size, were uniqueColors a list of the keys and not a Set *)
uniqueColorsListed(board, sampleSize) == Cardinality(SampledPixels(sampleSize))

(* uniqueColors.size after the loop *)
uniqueColorsOf(board, sampleSize) ==
  Cardinality({colorKey(PixelAt(board, p[1], p[2])) : p \in SampledPixels(sampleSize)})

(* edgeCount after the loop *)
edgeCountOf(board, sampleSize) ==
  LET stride == sampleStride(sampleSize)
  IN  Cardinality({p \in SampledPixels(sampleSize) :
         /\ p[1] < sampleSize - stride
         /\ p[2] < sampleSize - stride
         /\ \/ colorDiff(PixelAt(board, p[1], p[2]), PixelAt(board, p[1] + stride, p[2])) > 100
            \/ colorDiff(PixelAt(board, p[1], p[2]), PixelAt(board, p[1], p[2] + stride)) > 100})

(* the counters of the loop over the sample of a board *)
countsOf(board, sampleSize) ==
  [blackWhite |-> Cardinality({p \in SampledPixels(sampleSize) :
                     \/ isBlack(PixelAt(board, p[1], p[2]))
                     \/ isWhite(PixelAt(board, p[1], p[2]))}),
   gray |-> Cardinality({p \in SampledPixels(sampleSize) : isGray(PixelAt(board, p[1], p[2]))}),
   uniqueColors |-> uniqueColorsOf(board, sampleSize),
   edgeCount |-> edgeCountOf(board, sampleSize),
   transparentPixels |-> 0]

AnalysisIdle == [pc |-> "idle", sampleSize |-> 0, counts |-> NoCounts, kind |-> "none",
                 board |-> NoBoard]

(* analyzeImageType, called once by compress, up to the end of its sampling
   loop: no pixel is fully transparent, so every visited pixel is counted as
   black, white, gray or coloured *)
AnalysisSample ==
  /\ analysis.pc = "idle"
  /\ \E side \in ImageSides, bw \in BlackWhiteLevels, gray \in GrayLevels,
        colors \in UniqueColorLevels, edges \in EdgeLevels, transparent \in TransparentLevels :
       LET sampleSize == sampleSizeOf(side)
           n == VisitedPixels(sampleSize)
           c == [blackWhite |-> Share(bw, n), gray |-> Share(gray, n),
                 uniqueColors |-> Max(1, Share(colors, n)),
                 edgeCount |-> Share(edges, n),
                 transparentPixels |-> Share(transparent, n)]
       IN  /\ c.blackWhite + c.gray <= n
           /\ c.uniqueColors <= (n - c.blackWhite) + Min(c.blackWhite, BlackWhiteKeys)
           /\ c.edgeCount <= EdgeCandidates(sampleSize)
           /\ analysis' = [pc |-> "sampled", sampleSize |-> sampleSize, counts |-> c,
                           kind |-> "none", board |-> NoBoard]
  /\ UNCHANGED nonAnalysisVars

(* analyzeImageType up to the end of its sampling loop, on a checkerboard of
   two distinct opaque colours *)
AnalysisSampleCheckerboard ==
  /\ analysis.pc = "idle"
  /\ \E board \in Checkerboards :
       /\ board.a # board.b
       /\ board.cell < board.side
       /\ analysis' = [pc |-> "sampled", sampleSize |-> sampleSizeOf(board.side),
                       counts |-> countsOf(board, sampleSizeOf(board.side)),
                       kind |-> "none", board |-> board]
  /\ UNCHANGED nonAnalysisVars

(* the metrics and the returned type *)
analyzeImageType ==
  /\ analysis.pc = "sampled"
  /\ analysis' = [analysis EXCEPT
                    !.pc = "returned",
                    !.kind = imageTypeOf(analysis.counts, totalSampledPixels(analysis.sampleSize))]
  /\ UNCHANGED nonAnalysisVars

AnalysisNext ==
  \/ AnalysisSample
  \/ AnalysisSampleCheckerboard
  \/ analyzeImageType

(***************************************************************************)
(* The colour reduction passes of PNGCompressor on one pixel of the image   *)
(* data: reduceColorsForPhotographic, reduceColorsForGraphical, and         *)
(* reduceColorsAdaptive followed by reduceColorsAggressively on the same    *)
(* array (compressHybridPNG).                                               *)
(***************************************************************************)
ChannelValues == {0, 7, 130, 255}
AlphaValues == {0, 64, 128, 255}

Pixel(r, g, b, a) == [r |-> r, g |-> g, b |-> b, a |-> a]

(* A pixel of ctx.getImageData: the canvas bitmap is premultiplied, so a fully
   transparent pixel reads back as transparent black. *)
ImageDataPixels ==
  {Pixel(r, g, b, a) : r \in ChannelValues, g \in ChannelValues, b \in ChannelValues,
                       a \in AlphaValues \ {0}}
    \cup {Pixel(0, 0, 0, 0)}

PHOTOGRAPHIC_LEVEL == 4
GRAPHICAL_LEVEL == 8
AGGRESSIVE_LEVEL == 16
ADAPTIVE_EDGE_LEVEL == 2
ADAPTIVE_FLAT_LEVEL == 6
ALPHA_THRESHOLD == 128

(* the body of the loop of a pass, with Math.round in place of Math.floor *)
reduceColorsRounded(p, quantizationLevel) ==
  IF p.a = 0 THEN p
  ELSE [r |-> Min(255, ((2 * p.r + quantizationLevel) \div (2 * quantizationLevel)) * quantizationLevel),
        g |-> Min(255, ((2 * p.g + quantizationLevel) \div (2 * quantizationLevel)) * quantizationLevel),
        b |-> Min(255, ((2 * p.b + quantizationLevel) \div (2 * quantizationLevel)) * quantizationLevel),
        a |-> IF p.a < ALPHA_THRESHOLD THEN 0 ELSE 255]

(* the body of the loop of a pass: a fully transparent pixel is skipped *)
reduceColors(p, quantizationLevel) ==
  IF p.a = 0 THEN p
  ELSE [r |-> FloorDiv(p.r, quantizationLevel) * quantizationLevel,
        g |-> FloorDiv(p.g, quantizationLevel) * quantizationLevel,
        b |-> FloorDiv(p.b, quantizationLevel) * quantizationLevel,
        a |-> IF p.a < ALPHA_THRESHOLD THEN 0 ELSE 255]

QuantIdle == [pc |-> "idle", strategy |-> "none", pass |-> "none", level |-> 0,
              before |-> Pixel(0, 0, 0, 0), data |-> Pixel(0, 0, 0, 0)]

(* one pass over the array: before is the pixel as the pass found it *)
QuantPass(q, pass, level, pc) ==
  [q EXCEPT !.pc = pc, !.pass = pass, !.level = level, !.before = q.data,
            !.data = reduceColors(q.data, level)]

(* drawImage and getImageData of a compression strategy *)
QuantGetImageData ==
  /\ quant.pc = "idle"
  /\ \E strategy \in {"photographic", "graphical", "hybrid"}, p \in ImageDataPixels :
       quant' = [QuantIdle EXCEPT !.pc = "imageData", !.strategy = strategy,
                                  !.before = p, !.data = p]
  /\ UNCHANGED nonQuantVars

reduceColorsForPhotographic ==
  /\ quant.pc = "imageData" /\ quant.strategy = "photographic"
  /\ quant' = QuantPass(quant, "photographic", PHOTOGRAPHIC_LEVEL, "done")
  /\ UNCHANGED nonQuantVars

reduceColorsForGraphical ==
  /\ quant.pc = "imageData" /\ quant.strategy = "graphical"
  /\ quant' = QuantPass(quant, "graphical", GRAPHICAL_LEVEL, "done")
  /\ UNCHANGED nonQuantVars

(* reduceColorsAdaptive: the level depends on the edge map at the pixel *)
reduceColorsAdaptive ==
  /\ quant.pc = "imageData" /\ quant.strategy = "hybrid"
  /\ \E isEdge \in BOOLEAN :
       /\ isEdge => quant.data.a >= ALPHA_THRESHOLD
       /\ quant' = QuantPass(quant, "adaptive",
                             IF isEdge THEN ADAPTIVE_EDGE_LEVEL ELSE ADAPTIVE_FLAT_LEVEL,
                             "adapted")
  /\ UNCHANGED nonQuantVars

(* compressHybridPNG, when the adaptive pass did not reduce the size enough *)
reduceColorsAggressively ==
  /\ quant.pc = "adapted"
  /\ quant' = QuantPass(quant, "aggressive", AGGRESSIVE_LEVEL, "done")
  /\ UNCHANGED nonQuantVars

(* optimizeLineArt, the base pass of compressLineArt, on one pixel.  Math.round
   rounds halves up; a store into the Uint8ClampedArray clamps to 0..255. *)
BLACK_THRESHOLD == 30
WHITE_THRESHOLD == 200
GRAY_LEVELS == 4
GRAY_DELTA == 20
LINEART_STEP == 32
LineArtChannelValues == {0, 29, 30, 130, 149, 150, 200, 201, 240, 255}

LineArtPixels ==
  {Pixel(r, g, b, a) : r \in LineArtChannelValues, g \in LineArtChannelValues,
                       b \in LineArtChannelValues, a \in AlphaValues \ {0}}
    \cup {Pixel(0, 0, 0, 0)}

isDark(p) == p.r < BLACK_THRESHOLD /\ p.g < BLACK_THRESHOLD /\ p.b < BLACK_THRESHOLD

isLight(p) == p.r > WHITE_THRESHOLD /\ p.g > WHITE_THRESHOLD /\ p.b > WHITE_THRESHOLD

isNearGray(p) ==
  Abs(p.r - p.g) < GRAY_DELTA /\ Abs(p.r - p.b) < GRAY_DELTA /\ Abs(p.g - p.b) < GRAY_DELTA

RoundDiv(a, b) == (2 * a + b) \div (2 * b)

LineArtBody(p, whiteCheck) ==
  IF p.a = 0 THEN p
  ELSE IF isDark(p) THEN Pixel(0, 0, 0, p.a)
  ELSE IF whiteCheck /\ isLight(p) THEN Pixel(255, 255, 255, p.a)
  ELSE IF isNearGray(p)
    THEN LET grayLevel == RoundDiv(p.r + p.g + p.b, 3)
             levelWidth == 255 \div (GRAY_LEVELS - 1)
             quantizedGray == RoundDiv(grayLevel, levelWidth) * levelWidth
         IN  Pixel(quantizedGray, quantizedGray, quantizedGray, p.a)
  ELSE Pixel(Min(255, RoundDiv(p.r, LINEART_STEP) * LINEART_STEP),
             Min(255, RoundDiv(p.g, LINEART_STEP) * LINEART_STEP),
             Min(255, RoundDiv(p.b, LINEART_STEP) * LINEART_STEP), p.a)

(* a base pass that treats very light pixels like any other *)
optimizeLineArtNoWhite(p) == LineArtBody(p, FALSE)

optimizeLineArt(p) == LineArtBody(p, TRUE)

(* drawImage and getImageData of compressLineArt *)
QuantGetLineArtData ==
  /\ quant.pc = "idle"
  /\ \E p \in LineArtPixels :
       quant' = [QuantIdle EXCEPT !.pc = "imageData", !.strategy = "lineart",
                                  !.before = p, !.data = p]
  /\ UNCHANGED nonQuantVars

(* the base pass of compressLineArt *)
QuantLineArt ==
  /\ quant.pc = "imageData" /\ quant.strategy = "lineart"
  /\ quant' = [quant EXCEPT !.pc = "done", !.pass = "lineart", !.level = LINEART_STEP,
                            !.before = quant.data, !.data = optimizeLineArt(quant.data)]
  /\ UNCHANGED nonQuantVars

QuantNext ==
  \/ QuantGetImageData
  \/ reduceColorsForPhotographic
  \/ reduceColorsForGraphical
  \/ reduceColorsAdaptive
  \/ reduceColorsAggressively
  \/ QuantGetLineArtData
  \/ QuantLineArt

(***************************************************************************)
(* JPEGCompressorAdvanced: the single worker of one instance (this.worker,  *)
(* this.workerPromise) and the compressWithWorker calls that run on the     *)
(* instance at the same time.  A worker is named by its index in            *)
(* jpeg.workers, in the order of creation; the image of call c is c.        *)
(***************************************************************************)
MaxJpegCalls == 2
JpegCalls == 1..MaxJpegCalls

JpegCallIdle == [pc |-> "idle", w |-> 0, settled |-> "no", resultOf |-> 0]

(* new Worker(workerUrl) in initWorker: its promise pending, the fallback
   timer of 1 s armed, no onmessage handler, no request *)
JpegWorkerNew == [init |-> "pending", alive |-> TRUE, fallback |-> TRUE, onmessage |-> 0,
                  inbox |-> <<>>]

JpegWorkerInit ==
  /\ jpeg = [worker |-> 0, workerPromise |-> 0, workers |-> <<>>]
  /\ jpegCalls = [c \in JpegCalls |-> JpegCallIdle]

(* terminateWorker: a terminated worker answers nothing any more *)
terminateWorker(j) ==
  [j EXCEPT !.workers = IF j.worker # 0
                          THEN [j.workers EXCEPT ![j.worker].alive = FALSE,
                                                 ![j.worker].inbox = <<>>]
                          ELSE j.workers,
            !.worker = 0,
            !.workerPromise = 0]

(* resolve / reject of the promise of compressWithWorker: the first call wins *)
JpegSettle(call, outcome, of) ==
  IF call.settled # "no" THEN call
  ELSE [call EXCEPT !.settled = outcome, !.resultOf = of]

(* compressWithWorker calls initWorker: the promise of an initialization in
   progress or done is shared, else a worker is created *)
initWorker ==
  /\ \E c \in JpegCalls :
       /\ jpegCalls[c].pc = "idle"
       /\ \A d \in 1..(c - 1) : jpegCalls[d].pc # "idle"
       /\ IF jpeg.workerPromise # 0
            THEN /\ jpegCalls' = [jpegCalls EXCEPT ![c].pc = "initWorker",
                                                   ![c].w = jpeg.workerPromise]
                 /\ UNCHANGED jpeg
            ELSE /\ jpeg' = [jpeg EXCEPT !.workers = Append(jpeg.workers, JpegWorkerNew),
                                         !.workerPromise = Len(jpeg.workers) + 1]
                 /\ jpegCalls' = [jpegCalls EXCEPT ![c].pc = "initWorker",
                                                   ![c].w = Len(jpeg.workers) + 1]
  /\ UNCHANGED nonJpegWorkerVars

(* readyHandler: the worker answers "ready" *)
JpegWorkerReady ==
  /\ \E i \in 1..Len(jpeg.workers) :
       /\ jpeg.workers[i].init = "pending"
       /\ jpeg.workers[i].alive
       /\ jpeg' = [jpeg EXCEPT !.worker = i, !.workers[i].init = "ready"]
  /\ UNCHANGED jpegCalls
  /\ UNCHANGED nonJpegWorkerVars

(* errorHandler: an error event before the fallback timer removed the handler *)
JpegWorkerInitError ==
  /\ \E i \in 1..Len(jpeg.workers) :
       /\ jpeg.workers[i].init = "pending"
       /\ jpeg.workers[i].fallback
       /\ jpeg' = [jpeg EXCEPT !.workerPromise = 0, !.workers[i].init = "failed"]
  /\ UNCHANGED jpegCalls
  /\ UNCHANGED nonJpegWorkerVars

(* the fallback timer of initWorker fires after 1 s *)
JpegInitFallback ==
  /\ \E i \in 1..Len(jpeg.workers) :
       /\ jpeg.workers[i].fallback
       /\ jpeg' = IF jpeg.worker = 0
                    THEN [jpeg EXCEPT !.worker = i,
                                      !.workers[i].fallback = FALSE,
                                      !.workers[i].init = IF @ = "pending" THEN "ready" ELSE @]
                    ELSE [jpeg EXCEPT !.workers[i].fallback = FALSE]
  /\ UNCHANGED jpegCalls
  /\ UNCHANGED nonJpegWorkerVars

(* the then / catch of initWorker() in compressWithWorker *)
JpegInitSettled ==
  /\ \E c \in JpegCalls :
       /\ jpegCalls[c].pc = "initWorker"
       /\ jpeg.workers[jpegCalls[c].w].init # "pending"
       /\ jpegCalls' = [jpegCalls EXCEPT ![c] =
            IF jpeg.workers[jpegCalls[c].w].init = "ready"
              THEN [jpegCalls[c] EXCEPT !.pc = "reading"]
              ELSE [JpegSettle(jpegCalls[c], "rejected", 0) EXCEPT !.pc = "done"]]
  /\ UNCHANGED jpeg
  /\ UNCHANGED nonJpegWorkerVars

(* reader.onload: worker.onmessage is assigned (replacing any handler the
   worker had) and the request is posted; or postMessage throws; or
   reader.onerror *)
JpegReaderDone ==
  /\ \E c \in JpegCalls, outcome \in {"posted", "postThrows", "readError"} :
       /\ jpegCalls[c].pc = "reading"
       /\ LET w == jpegCalls[c].w
              handled == [jpeg EXCEPT !.workers[w].onmessage = c]
          IN  CASE outcome = "posted" ->
                     /\ jpeg' = IF jpeg.workers[w].alive
                                  THEN [handled EXCEPT !.workers[w].inbox = Append(@, c)]
                                  ELSE handled
                     /\ jpegCalls' = [jpegCalls EXCEPT ![c].pc = "posted"]
                [] outcome = "postThrows" ->
                     /\ jpeg' = terminateWorker(handled)
                     /\ jpegCalls' = [jpegCalls EXCEPT ![c] =
                          [JpegSettle(jpegCalls[c], "rejected", 0) EXCEPT !.pc = "done"]]
                [] outcome = "readError" ->
                     /\ jpeg' = terminateWorker(jpeg)
                     /\ jpegCalls' = [jpegCalls EXCEPT ![c] =
                          [JpegSettle(jpegCalls[c], "rejected", 0) EXCEPT !.pc = "done"]]
  /\ UNCHANGED nonJpegWorkerVars

(* the worker answers its oldest request with "result" or "error"; the handler
   now in worker.onmessage takes the answer, settles its own call and calls
   terminateWorker *)
JpegWorkerMessage ==
  /\ \E i \in 1..Len(jpeg.workers), type \in {"result", "error"} :
       /\ jpeg.workers[i].alive
       /\ jpeg.workers[i].inbox # <<>>
       /\ LET request == Head(jpeg.workers[i].inbox)
              handler == jpeg.workers[i].onmessage
          IN  /\ jpeg' = terminateWorker([jpeg EXCEPT !.workers[i].inbox = Tail(@)])
              /\ jpegCalls' = [jpegCalls EXCEPT ![handler] =
                   [JpegSettle(jpegCalls[handler],
                               IF type = "result" THEN "resolved" ELSE "rejected", request)
                      EXCEPT !.pc = "done"]]
  /\ UNCHANGED nonJpegWorkerVars

JpegWorkerNext ==
  \/ initWorker
  \/ JpegWorkerReady
  \/ JpegWorkerInitError
  \/ JpegInitFallback
  \/ JpegInitSettled
  \/ JpegReaderDone
  \/ JpegWorkerMessage

(***************************************************************************)
(* The progress display of handleCompress: compressionProgress,            *)
(* compressionInfo and the intervals its branches start.  An interval is   *)
(* an entry of `intervals`; it ticks for as long as it is active, whether  *)
(* or not handleCompress is still running.                                 *)
(***************************************************************************)
MaxRuns == 2
MaxTicks == 50
ProgressSizes == {500 * KB, 2 * MB, 12 * MB}

HcRunIdle == [pc |-> "idle", type |-> Null, size |-> 0, tracker |-> 0, runs |-> 0]

ProgressInit ==
  /\ compressionProgress = 0
  /\ compressionInfo = Null
  /\ intervals = <<>>
  /\ hcRun = HcRunIdle

(* setInterval: `counting` is the callback of the advanced JPEG branch, which
   counts its own ticks; the other callbacks raise the previous progress *)
setInterval(ivs, counting, size) ==
  Append(ivs, [active |-> TRUE, counting |-> counting, progressCounter |-> 0,
               increment |-> IF size > 10 * MB THEN 1 ELSE 2])

clearInterval(ivs, i) == [ivs EXCEPT ![i].active = FALSE]

(* handleCompress from the format detection to the await of its branch *)
ProgressRoute(type, size, runs, info) ==
  LET isPNG == type = "image/png"
      isLargeImage == size > 1 * MB
      run(pc, tracker) == [pc |-> pc, type |-> type, size |-> size, tracker |-> tracker,
                           runs |-> runs]
  IN  IF supportsAdvancedFeatures /\ isLargeImage
        THEN IF isPNG
               THEN /\ compressionInfo' = "Preparing to compress your image..."
                    /\ intervals' = intervals
                    /\ hcRun' = run("awaitAdvanced", 0)
               ELSE /\ compressionInfo' = info
                    /\ intervals' = setInterval(intervals, TRUE, size)
                    /\ hcRun' = run("awaitAdvanced", Len(intervals) + 1)
        ELSE /\ compressionInfo' = "Compressing your image..."
             /\ intervals' = setInterval(intervals, FALSE, size)
             /\ hcRun' = run("awaitSimple", Len(intervals) + 1)

(* handleCompress up to its first await *)
ProgressStart ==
  /\ mounted
  /\ hcRun.pc = "idle"
  /\ hcRun.runs < MaxRuns
  /\ \E type \in {"image/png", "image/jpeg"}, size \in ProgressSizes, convert \in BOOLEAN :
       IF type = "image/png" /\ convert
         THEN /\ compressionProgress' = 0
              /\ compressionInfo' = "Converting image format..."
              /\ hcRun' = [pc |-> "converting", type |-> type, size |-> size, tracker |-> 0,
                           runs |-> hcRun.runs + 1]
              /\ UNCHANGED intervals
         ELSE /\ compressionProgress' = 0
              /\ ProgressRoute(type, size, hcRun.runs + 1, Null)
  /\ UNCHANGED pageVars
  /\ UNCHANGED nonProgressVars

(* await convertPngToJpeg *)
ProgressConvertDone ==
  /\ hcRun.pc = "converting"
  /\ \E ok \in BOOLEAN :
       IF ok THEN /\ compressionProgress' = 10
                  /\ ProgressRoute("image/jpeg", hcRun.size, hcRun.runs, compressionInfo)
             ELSE /\ UNCHANGED compressionProgress
                  /\ ProgressRoute(hcRun.type, hcRun.size, hcRun.runs,
                                   "Using original image format...")
  /\ UNCHANGED pageVars
  /\ UNCHANGED nonProgressVars

(* the end of handleCompress: its finally block *)
ProgressFinish == hcRun' = [HcRunIdle EXCEPT !.runs = hcRun.runs]

(* Promise.race resolves with the advanced compressor's result *)
ProgressAdvancedResolved ==
  /\ hcRun.pc = "awaitAdvanced"
  /\ compressionProgress' = 100
  /\ IF hcRun.type = "image/png"
       THEN /\ compressionInfo' = "Compression complete!"
            /\ UNCHANGED intervals
       ELSE /\ compressionInfo' = Null
            /\ intervals' = clearInterval(intervals, hcRun.tracker)
  /\ ProgressFinish
  /\ UNCHANGED pageVars
  /\ UNCHANGED nonProgressVars

(* Promise.race rejects (the advanced compressor failed or the deadline fired):
   the catch block of the advanced branch *)
ProgressAdvancedFailed ==
  /\ hcRun.pc = "awaitAdvanced"
  /\ compressionProgress' = 0
  /\ compressionInfo' = "Trying alternative compression method..."
  /\ IF hcRun.type = "image/png"
       THEN /\ intervals' = setInterval(intervals, FALSE, hcRun.size)
            /\ hcRun' = [hcRun EXCEPT !.pc = "awaitFallback", !.tracker = Len(intervals) + 1]
       ELSE /\ UNCHANGED intervals
            /\ hcRun' = [hcRun EXCEPT !.pc = "awaitFallback", !.tracker = 0]
  /\ UNCHANGED pageVars
  /\ UNCHANGED nonProgressVars

(* the simple compressor of the fallback settles: the PNG branch has a finally
   block, the JPEG branch has none *)
ProgressFallbackSettled ==
  /\ hcRun.pc = "awaitFallback"
  /\ IF hcRun.type = "image/png"
       THEN /\ intervals' = clearInterval(intervals, hcRun.tracker)
            /\ compressionProgress' = 100
            /\ compressionInfo' = Null
       ELSE UNCHANGED <<intervals, compressionProgress, compressionInfo>>
  /\ ProgressFinish
  /\ UNCHANGED pageVars
  /\ UNCHANGED nonProgressVars

(* the simple compressor of the simple branch settles: its finally block *)
ProgressSimpleSettled ==
  /\ hcRun.pc = "awaitSimple"
  /\ intervals' = clearInterval(intervals, hcRun.tracker)
  /\ compressionProgress' = 100
  /\ compressionInfo' = Null
  /\ ProgressFinish
  /\ UNCHANGED pageVars
  /\ UNCHANGED nonProgressVars

(* one tick of an interval that was not cleared *)
ProgressTick ==
  /\ \E i \in 1..Len(intervals) :
       LET iv == intervals[i]
       IN  /\ iv.active
           /\ IF iv.counting
                THEN LET progressCounter == iv.progressCounter + 1
                         progress == Min(progressCounter * iv.increment, 95)
                     IN  /\ progressCounter <= MaxTicks
                         /\ intervals' = [intervals EXCEPT ![i].progressCounter = progressCounter]
                         /\ compressionProgress' = progress
                         /\ compressionInfo' = IF progress < 30 THEN "Analyzing your image..."
                                               ELSE IF progress < 60 THEN "Processing your image..."
                                               ELSE "Optimizing quality..."
                ELSE /\ compressionProgress' = IF compressionProgress < 90
                                                 THEN compressionProgress + 2
                                                 ELSE compressionProgress
                     /\ UNCHANGED <<intervals, compressionInfo>>
  /\ UNCHANGED hcRun
  /\ UNCHANGED pageVars
  /\ UNCHANGED nonProgressVars

(* the mount effect of the page, which sets supportsAdvancedFeatures *)
ProgressMount ==
  /\ checkSupport
  /\ UNCHANGED progressVars

ProgressNext ==
  \/ ProgressMount
  \/ ProgressStart
  \/ ProgressConvertDone
  \/ ProgressAdvancedResolved
  \/ ProgressAdvancedFailed
  \/ ProgressFallbackSettled
  \/ ProgressSimpleSettled
  \/ ProgressTick

(***************************************************************************)
(* The two simple strategies of PNGCompressorAdvanced,                     *)
(* compressWithSimpleTiling and compressWithSimpleApproach, followed for   *)
(* one pixel of the image: both run optimizeColorsForPNG, the first on     *)
(* each tile, the second on the whole image.                               *)
(***************************************************************************)
SIMPLE_TILE_SIZE == 1024
COLOR_PRECISION_PIXELS == 1000000
SimpleDims == {800, 1024, 2000}
SimpleCoords == {0, 799, 1023, 1024, 1999}
SimplePixels == {Pixel(200, 100, 9, 255), Pixel(126, 8, 255, 128), Pixel(17, 40, 90, 127),
                 Pixel(16, 32, 240, 255)}

SimpleIdle == [pc |-> "idle", width |-> 0, height |-> 0, x |-> 0, y |-> 0,
               before |-> Pixel(0, 0, 0, 0), tiled |-> Pixel(0, 0, 0, 0),
               whole |-> Pixel(0, 0, 0, 0)]

SimpleInit == simple = SimpleIdle

(* optimizeColorsForPNG on one pixel of a data array of width x height pixels *)
optimizeColorsForPNG(p, width, height) ==
  LET colorPrecision == IF width * height > COLOR_PRECISION_PIXELS THEN 16 ELSE 8
  IN  IF p.a < 128
        THEN Pixel(0, 0, 0, 0)
        ELSE Pixel(FloorDiv(p.r, colorPrecision) * colorPrecision,
                   FloorDiv(p.g, colorPrecision) * colorPrecision,
                   FloorDiv(p.b, colorPrecision) * colorPrecision, 255)

(* the pixel (x, y) after the tile loop of compressWithSimpleTiling *)
compressWithSimpleTiling(p, x, y, width, height) ==
  LET tileSize == SIMPLE_TILE_SIZE
      tileX == FloorDiv(x, tileSize) * tileSize
      tileY == FloorDiv(y, tileSize) * tileSize
      tileWidth == Min(tileSize, width - tileX)
      tileHeight == Min(tileSize, height - tileY)
  IN  optimizeColorsForPNG(p, tileWidth, tileHeight)

(* the pixel (x, y) after the single pass of compressWithSimpleApproach *)
compressWithSimpleApproach(p, width, height) == optimizeColorsForPNG(p, width, height)

(* createImageFromFile and drawImage: an image and one of its pixels *)
SimpleDrawImage ==
  /\ simple.pc = "idle"
  /\ \E width \in SimpleDims, height \in SimpleDims, x \in SimpleCoords, y \in SimpleCoords,
        p \in SimplePixels :
       /\ x < width /\ y < height
       /\ simple' = [SimpleIdle EXCEPT !.pc = "drawn", !.width = width, !.height = height,
                                       !.x = x, !.y = y, !.before = p]
  /\ UNCHANGED nonSimpleVars

(* both strategies have processed the image *)
SimpleCompress ==
  /\ simple.pc = "drawn"
  /\ simple' = [simple EXCEPT
                  !.pc = "done",
                  !.tiled = compressWithSimpleTiling(simple.before, simple.x, simple.y,
                                                     simple.width, simple.height),
                  !.whole = compressWithSimpleApproach(simple.before, simple.width,
                                                       simple.height)]
  /\ UNCHANGED nonSimpleVars

SimpleNext ==
  \/ SimpleDrawImage
  \/ SimpleCompress

(***************************************************************************)
(* The downscale factor the PNG compressors draw an image with:             *)
(* compressLargeImage and compressWithDownscaling of PNGCompressorAdvanced  *)
(* (reached from compress() by the file size) and the last resort of        *)
(* compressHybridPNG of PNGCompressor.  Factors are in tenths, sizes in KB, *)
(* pixel counts in megapixels.                                              *)
(***************************************************************************)
ScaleUnit == 10
DownscaleSizes == {2 * MB, 5 * MB + 1, 6 * MB, 8 * MB + 1, 9 * MB, 10 * MB + 1, 12 * MB,
                   15 * MB + 1, 18 * MB, 20 * MB}
DownscaleMegapixels == {1, 4, 9, 10, 11, 16, 20, 21, 30}

DownscaleIdle == [pc |-> "idle", fn |-> "none", size |-> 0, megapixels |-> 0, scaleFactor |-> 0]

DownscaleInit == scaling = DownscaleIdle

(* scaleFactor of compressLargeImage, chosen by the pixel count of the image *)
LargeImageScaleFactor(megapixels) ==
  IF megapixels > 20 THEN 5
  ELSE IF megapixels > 10 THEN 7
  ELSE ScaleUnit

(* scaleFactor of compressWithDownscaling, chosen by the size of the file *)
DownscalingScaleFactor(size) ==
  IF size > 15 * MB THEN 6
  ELSE IF size > 8 * MB THEN 7
  ELSE IF size > 5 * MB THEN 8
  ELSE ScaleUnit

HYBRID_SCALE_FACTOR == 9

(* compress() of PNGCompressorAdvanced up to the drawImage of its strategy *)
DownscaleAdvanced ==
  /\ scaling.pc = "idle"
  /\ \E size \in DownscaleSizes, megapixels \in DownscaleMegapixels :
       scaling' =
         IF size > 10 * MB
           THEN [pc |-> "drawn", fn |-> "compressLargeImage", size |-> size,
                 megapixels |-> megapixels, scaleFactor |-> LargeImageScaleFactor(megapixels)]
         ELSE IF size > 5 * MB
           THEN [pc |-> "drawn", fn |-> "compressWithDownscaling", size |-> size,
                 megapixels |-> megapixels, scaleFactor |-> DownscalingScaleFactor(size)]
         ELSE [pc |-> "drawn", fn |-> "compressWithQualityPreservation", size |-> size,
               megapixels |-> megapixels, scaleFactor |-> ScaleUnit]
  /\ UNCHANGED nonDownscaleVars

(* compressHybridPNG of PNGCompressor reaches its last resort *)
DownscaleHybrid ==
  /\ scaling.pc = "idle"
  /\ \E size \in DownscaleSizes, megapixels \in DownscaleMegapixels :
       scaling' = [pc |-> "drawn", fn |-> "compressHybridPNG", size |-> size,
                     megapixels |-> megapixels, scaleFactor |-> HYBRID_SCALE_FACTOR]
  /\ UNCHANGED nonDownscaleVars

(* the strategy returns *)
DownscaleReturn ==
  /\ scaling.pc = "drawn"
  /\ scaling' = DownscaleIdle
  /\ UNCHANGED nonDownscaleVars

DownscaleNext ==
  \/ DownscaleAdvanced
  \/ DownscaleHybrid
  \/ DownscaleReturn

(***************************************************************************)
(* The canvas pool of PNGCompressorAdvanced and compressWithDownscaling,    *)
(* the strategy that recycles its canvas before its last progress callback. *)
(* A canvas is a record of its identity and its width (the height follows   *)
(* the width here); dsc is the position of the running call.               *)
(***************************************************************************)
MAX_CANVAS_POOL == 10
MaxCanvases == 4
CanvasWidths == {1, 2}

NoCanvas == [id |-> 0, width |-> 0]
DscIdle == [pc |-> "idle", canvas |-> NoCanvas, created |-> 0]

CanvasInit ==
  /\ canvasPool = <<>>
  /\ dsc = DscIdle

RemoveAt(s, i) == SubSeq(s, 1, i - 1) \o SubSeq(s, i + 1, Len(s))

(* getCanvas: the first pooled canvas of the width asked for is taken out of the
   pool, else a canvas is created *)
getCanvas(pool, width, created) ==
  LET matching == {i \in 1..Len(pool) : pool[i].width = width}
  IN  IF matching # {}
        THEN LET availableCanvasIndex == CHOOSE i \in matching : \A j \in matching : i <= j
             IN  [canvas |-> pool[availableCanvasIndex],
                  pool |-> RemoveAt(pool, availableCanvasIndex), created |-> created]
        ELSE [canvas |-> [id |-> created + 1, width |-> width], pool |-> pool,
              created |-> created + 1]

(* recycleCanvas *)
recycleCanvas(pool, canvas) ==
  IF Len(pool) < MAX_CANVAS_POOL THEN Append(pool, canvas) ELSE pool

(* compressWithDownscaling up to await compressWithPngEncoder; a progress
   callback that throws ends the call in the outer catch *)
DscGetCanvas ==
  /\ dsc.pc = "idle"
  /\ \E width \in CanvasWidths, progressThrows \in BOOLEAN :
       LET got == getCanvas(canvasPool, width, dsc.created)
       IN  /\ got.created <= MaxCanvases
           /\ canvasPool' = got.pool
           /\ dsc' = IF progressThrows
                       THEN [DscIdle EXCEPT !.created = got.created]
                       ELSE [pc |-> "encoding", canvas |-> got.canvas, created |-> got.created]
  /\ UNCHANGED nonCanvasVars

(* compressWithPngEncoder settles.  On success the canvas is recycled and then
   onProgress(100) is called inside the same try block, so a throwing callback
   enters the catch block that encodes the canvas with findOptimalQuality. *)
DscEncoderSettled ==
  /\ dsc.pc = "encoding"
  /\ \E ok \in BOOLEAN, progressThrows \in BOOLEAN :
       IF ok
         THEN /\ canvasPool' = recycleCanvas(canvasPool, dsc.canvas)
              /\ dsc' = IF progressThrows THEN [dsc EXCEPT !.pc = "fallback"]
                                          ELSE [DscIdle EXCEPT !.created = dsc.created]
         ELSE /\ UNCHANGED canvasPool
              /\ dsc' = [dsc EXCEPT !.pc = "fallback"]
  /\ UNCHANGED nonCanvasVars

(* findOptimalQuality of the catch block settles *)
DscFallbackSettled ==
  /\ dsc.pc = "fallback"
  /\ \E ok \in BOOLEAN :
       canvasPool' = IF ok THEN recycleCanvas(canvasPool, dsc.canvas) ELSE canvasPool
  /\ dsc' = [DscIdle EXCEPT !.created = dsc.created]
  /\ UNCHANGED nonCanvasVars

CanvasNext ==
  \/ DscGetCanvas
  \/ DscEncoderSettled
  \/ DscFallbackSettled

vars == <<pageVars, advVars, poolVars, tilerVars, tileVars, searchVars, entryVars, analysisVars,
         quantVars,
         jpegWorkerVars,
         progressVars,
         simpleVars,
         downscaleVars,
         canvasVars>>

Init ==
  /\ originalImage = NoFile
  /\ compressedResult = NoCompressedResult
  /\ isCompressing = FALSE
  /\ convertToJpeg = FALSE
  /\ supportsAdvancedFeatures = FALSE
  /\ mounted = FALSE
  /\ error = Null
  /\ hc = HcIdle
  /\ timeoutPromise = "none"
  /\ pageTrace = <<>>
  /\ adv = AdvIdle
  /\ advTrace = <<>>
  /\ advStages = <<>>
  /\ PoolInit
  /\ TilerInit
  /\ TileInit
  /\ search = SearchIdle
  /\ entry = EntryIdle
  /\ analysis = AnalysisIdle
  /\ quant = QuantIdle
  /\ JpegWorkerInit
  /\ ProgressInit
  /\ SimpleInit
  /\ DownscaleInit
  /\ CanvasInit

Next ==
  \/ PageNext
  \/ CompressDirect
  \/ CompressDiscard
  \/ AdvNext

Spec == Init /\ [][Next]_vars

SpecPool == Init /\ [][PoolNext]_vars

SpecTiler == Init /\ [][TilerNext]_vars

SpecTile == Init /\ [][TileNext]_vars

SpecSearch == Init /\ [][SearchNext]_vars

SpecEntry == Init /\ [][EntryNext]_vars

SpecAnalysis == Init /\ [][AnalysisNext]_vars

SpecQuant == Init /\ [][QuantNext]_vars

SpecJpegWorker == Init /\ [][JpegWorkerNext]_vars

SpecProgress == Init /\ [][ProgressNext]_vars

SpecSimple == Init /\ [][SimpleNext]_vars

SpecDownscale == Init /\ [][DownscaleNext]_vars

SpecCanvas == Init /\ [][CanvasNext]_vars

(* timers fire and settled promises resume; nothing makes the worker answer *)
FairSpecTile ==
  /\ SpecTile
  /\ WF_vars(BatchDispatch) /\ WF_vars(TileDecoded) /\ WF_vars(TileTimeout)
  /\ WF_vars(BatchSettled) /\ WF_vars(TileQualitySearch)

(* The browser runs every continuation whose promise has settled and fires every
   armed timer; the worker is not obliged to answer. *)
FairSpec ==
  /\ Spec
  /\ WF_vars(HCConvertDone)
  /\ WF_vars(HCAdvancedSettled)
  /\ WF_vars(PageTimeout)
  /\ WF_vars(HCSimpleDone)

(* In the pool every timer fires (the 50 ms interval of getWorker, the 10 s timer
   of compressWithPngEncoder, the initialization timeout of createWorker) and
   every local callback runs; the worker is not obliged to answer a request. *)
FairSpecPool ==
  /\ SpecPool
  /\ WF_vars(WorkerReady \/ WorkerInitFailed)
  /\ WF_vars(getWorker) /\ WF_vars(PollTick)
  /\ WF_vars(ToBlobDone) /\ WF_vars(PostToWorker \/ PostFailed)
  /\ WF_vars(TaskTimeout)

(* Inside compress() every local await resumes and every armed timer fires; the
   worker is not obliged to answer. *)
FairSpecAdv ==
  /\ Spec
  /\ WF_vars(AdvFileToDataURLDone) /\ WF_vars(AdvWorkerInitDone)
  /\ WF_vars(PngLargeImageDone) /\ WF_vars(PngDownscalingDone)
  /\ WF_vars(PngEncoderFallbackDone) /\ WF_vars(PngQualityPreservationDone)
  /\ WF_vars(PngSimpleStrategyDone) /\ WF_vars(JpegTilingDone)
  /\ WF_vars(JpegQualityDone) /\ WF_vars(AdvEncoderTimeout)

(***************************************************************************)
(* Properties.                                                             *)
(***************************************************************************)

(* C1: once handleCompress has started on a supported file (isCompressing is
   true) it finishes: isCompressing eventually returns to false, whether the
   worker of the advanced compressor answers, reports an error or stays silent. *)
C1_HandleCompressFinishes == isCompressing ~> ~isCompressing

(* a run that the deadline ended and the simple compressor completed *)
C1_Witness ==
  /\ ~isCompressing
  /\ pageTrace = <<"Advanced", "AdvancedTimedOut", "Simple", "Result">>

StrategyStarts == {"SizeCheck", "Primary", "Secondary"}
Rank(e) == CASE e = "SizeCheck" -> 1 [] e = "Primary" -> 2 [] e = "Secondary" -> 3

AdvOrder(t) ==
  /\ \A i, j \in 1..Len(t) :
        (i < j /\ t[i] \in StrategyStarts /\ t[j] \in StrategyStarts) => Rank(t[i]) < Rank(t[j])
  /\ \A i \in 1..Len(t) :
        /\ t[i] = "Primary" => (i = 1 \/ t[i - 1] = "SizeCheck")
        /\ t[i] = "Secondary" => (i > 1 /\ t[i - 1] = "PrimaryFailed")
        /\ t[i] \in {"Emit", "Failed"} => i = Len(t)

PageOrder(t) ==
  /\ \A i \in 1..Len(t) :
        /\ t[i] = "Advanced" => i = 1
        /\ t[i] = "Simple" => (i = 1 \/ t[i - 1] \in {"AdvancedFailed", "AdvancedTimedOut"})
        /\ t[i] \in {"Result", "Error"} => i = Len(t)
  /\ NoDuplicates(t)

(* C2: strategies start only in the order size check, primary, secondary (page:
   advanced, then simple), a later one only right after the failure or timeout
   of the previous one, none twice, and a finished run ended with a result or
   an error. *)
C2_StrategyOrder ==
  /\ AdvOrder(advTrace)
  /\ NoDuplicates(advStages)
  /\ PageOrder(pageTrace)
  /\ (adv.pc = "resolved" => (Last(advTrace) = "Emit" /\ adv.result # NoResult))
  /\ (adv.pc = "rejected" => (Last(advTrace) = "Failed" /\ adv.err # Null))
  /\ (hc.pc = "idle" /\ pageTrace # <<>> => Last(pageTrace) \in {"Result", "Error"})

(* a page run in which both strategies of the PNG compressor failed and the
   simple compressor was started after that *)
C2_Witness ==
  /\ hc.pc = "awaitSimple"
  /\ advTrace = <<"SizeCheck", "Primary", "PrimaryFailed", "Secondary", "SecondaryFailed", "Failed">>
  /\ pageTrace = <<"Advanced", "AdvancedFailed", "Simple">>

Covers(r, px, py) ==
  /\ r.x <= px /\ px < r.x + r.width
  /\ r.y <= py /\ py < r.y + r.height

InsideImage(r) ==
  /\ r.x >= 0 /\ r.y >= 0 /\ r.width > 0 /\ r.height > 0
  /\ r.x + r.width <= tiling.width
  /\ r.y + r.height <= tiling.height

TilesCovering(px, py) == {i \in DOMAIN tileRects : Covers(tileRects[i], px, py)}

C6_TileFallbackThenResult ==
  /\ [](\A t \in tileFellBack :
          /\ tileState[t].sent = 1
          /\ tileState[t].value.via \in {"local", "null"})
  /\ ((tileFellBack # {}) ~> (tileRun.pc = "returned" /\ tileRun.outcome = "result"))

\* C7: what the full canvas holds at a tile's position comes from that tile's pixels.
C7_TilePixelsFromOwnTile ==
  \A t \in TileIds : fullCanvas[t] # NoValue => fullCanvas[t].src = t

(* encoded size never decreases as quality increases *)
Monotone(img) == img.dip[1] > img.dip[2]

(* some quality of the range gives an encoding that fits *)
SomeQualityFits(img, targetSize) ==
  \/ EncodedSize(img, MIN_QUALITY) <= targetSize
  \/ EncodedSize(img, MAX_QUALITY) <= targetSize
  \/ img.dip[1] <= img.dip[2] /\ DipSize <= targetSize

TargetUnreachable(s) == EncodedSize(s.img, MIN_QUALITY) > s.targetSize

\* C3 as stated: for every encode function, when some quality fits the target the
\* returned encoding fits the target.
C3_AnyEncoder ==
  (search.pc = "returned" /\ SomeQualityFits(search.img, search.targetSize))
    => search.result.blob.size <= search.targetSize

\* C3, amended: for an encode function whose size never decreases as quality
\* increases, when some quality fits the target the returned encoding fits it.
C3_MonotoneEncoder ==
  (search.pc = "returned" /\ Monotone(search.img)
     /\ SomeQualityFits(search.img, search.targetSize))
    => search.result.blob.size <= search.targetSize

\* a binary search that ran its loop and returned an encoding found in the loop
C3_Witness ==
  /\ search.pc = "returned" /\ search.fn \in {"jpegAdvanced", "jpegSimple", "jpegWorker"}
  /\ Monotone(search.img)
  /\ search.iteration >= 6
  /\ search.result.blob = search.bestBlob
  /\ search.bestQuality > MIN_QUALITY
  /\ search.result.blob.size <= search.targetSize

\* C9: a search never raises when the minimum-quality encoding exceeds the target.
C9_NoErrorWhenUnreachable ==
  TargetUnreachable(search) => search.pc # "threw"

(* the searches named by C10, run on a file larger than the target *)
UnreachableReturn(s) ==
  /\ s.pc = "returned"
  /\ s.fn \in {"jpegAdvanced", "pngAdvanced", "jpegWorker"}
  /\ TargetUnreachable(s)

ReturnsMinQualityEncoding(s) ==
  /\ s.result.blob = canvasToBlob(s.img, MIN_QUALITY)
  /\ s.result.quality = MIN_QUALITY

\* C10 as stated: when the target is below the size of the minimum-quality
\* encoding, the returned bytes are the minimum-quality encoding and the reported
\* quality is the minimum quality.
C10_MinQualityEncodingReturned ==
  UnreachableReturn(search) => ReturnsMinQualityEncoding(search)

\* C10, amended: with an encoded size that never decreases as quality increases
\* and a file larger than the target, the returned bytes and quality are those of
\* the minimum-quality encoding, except that JPEGCompressorAdvanced returns the
\* result of compressWithProgressiveJPEG when that attempt succeeds.
C10_MinQualityUnlessProgressive ==
  (UnreachableReturn(search) /\ Monotone(search.img)
     /\ search.img.fileSize > search.targetSize)
    => IF search.progressive = "result"
         THEN search.result = ProgressiveResult(search.img, search.targetSize)
         ELSE ReturnsMinQualityEncoding(search)

\* JPEGCompressorAdvanced returned the minimum-quality encoding after the
\* progressive attempt failed
C10_Witness ==
  /\ UnreachableReturn(search) /\ Monotone(search.img)
  /\ search.fn = "jpegAdvanced" /\ search.progressive = "error"
  /\ search.iteration >= 7
  /\ ReturnsMinQualityEncoding(search)

\* C11: when handleCompress ends after every strategy it tried has failed, the
\* page's error state holds a message.
C11_FailureSurfaced ==
  (hc.pc = "idle" /\ pageTrace # <<>> /\ Last(pageTrace) = "Error"
     /\ \E i \in DOMAIN pageTrace : pageTrace[i] = "SimpleFailed")
    => error # Null

\* C12: when a run of PNGCompressorAdvanced.compress that got past its type,
\* size and target checks ends with an error for the caller, a secondary strategy
\* was attempted before (in every file-size bracket, and also when the worker
\* pool failed to initialize).
C12_PrimaryFailureTriesSecondary ==
  (adv.kind = "png" /\ adv.pc = "rejected"
     /\ adv.file.type = "image/png" /\ adv.file.size <= MAX_SIZE
     /\ adv.file.size > adv.targetSize)
    => \E i \in DOMAIN advTrace : advTrace[i] = "Secondary"

TimedOut == \E i \in DOMAIN pageTrace : pageTrace[i] = "AdvancedTimedOut"

DeadlineOf(f) == IF f.type = "image/png" THEN PngTimeoutMs(f.size) ELSE JpegTimeoutMs(f.size)

\* C13: the deadline of the advanced compressor is positive and no shorter for a
\* larger file of the same type; once it has expired handleCompress waits for
\* the simple compressor only, and the result it stores is never the advanced
\* compressor's, however late that one settles.
C13_LateResultNeverStored ==
  /\ hc.pc = "awaitAdvanced" =>
        /\ hc.timeoutMs > 0
        /\ \A g \in Files :
              (g.type = hc.fileToProcess.type /\ g.size >= hc.fileToProcess.size)
                 => DeadlineOf(g) >= hc.timeoutMs
  /\ TimedOut =>
        /\ hc.pc \in {"awaitSimple", "idle"}
        /\ compressedResult.method # "advanced"
        /\ hc.pc = "awaitSimple" => Last(pageTrace) = "Simple"

(* the deadline has expired, the simple compressor runs, and the abandoned
   advanced compressor has resolved late *)
C13_Witness ==
  /\ hc.pc = "awaitSimple"
  /\ pageTrace = <<"Advanced", "AdvancedTimedOut", "Simple">>
  /\ adv.pc = "resolved"
  /\ hc.timeoutMs = 300000

\* C14: every compress() of an advanced compressor that is running settles
\* (resolves or rejects) by itself, also when the worker never answers; a run
\* whose instance the caller has dropped is not counted.
C14_CompressSettles ==
  (adv.kind # "none" /\ ~Settled(adv)) ~> (Settled(adv) \/ adv.kind = "none")

\* C15: a getWorker caller that found every worker busy with the pool at
\* maxWorkers, and polls for an idle worker, eventually stops polling.
C15_PollingEnds ==
  \A t \in Tasks : (tasks[t].pc = "polling") ~> (tasks[t].pc # "polling")

\* C16: for each of the four compressors, a compress() that returns for a file
\* no larger than the compressor's target size returns the file itself with
\* quality 1.0.
C16_SmallFileReturnedUnchanged ==
  (entry.pc = "returned" /\ entry.file.size <= entry.targetSize)
    => (entry.result.blob = Blob("file", entry.file) /\ entry.result.quality = 100)

(* the advanced JPEG compressor returned a small file through its worker *)
C16_Witness ==
  /\ entry.pc = "returned" /\ entry.compressor = "JPEGCompressorAdvanced"
  /\ entry.file.size <= entry.targetSize
  /\ entry.result.by = "worker"
  /\ entry.result.blob = Blob("file", entry.file)

\* C17: a compress() called on a file of a type the compressor does not
\* support, or on a file above the 50 MB maximum of a compressor that configures
\* one, raises an error, and has then done no work: no file read, decoding,
\* classification, quantization, encoding or worker acquisition, and no use of
\* the worker pool or the canvas pool.
C17_InvalidInputRejectedFirst ==
  LET png == entry.compressor \in {"PNGCompressorAdvanced", "PNGCompressor"}
      wrongType == entry.file.type # (IF png THEN "image/png" ELSE "image/jpeg")
      tooLarge == /\ entry.compressor \in {"PNGCompressorAdvanced", "JPEGCompressorAdvanced"}
                  /\ entry.file.size > 50 * MB
  IN  (entry.pc # "idle" /\ (wrongType \/ tooLarge))
        => (entry.pc = "threw" /\ entry.work = {})

(* the advanced JPEG compressor rejected a JPEG above 50 MB *)
C17_Witness ==
  /\ entry.pc = "threw" /\ entry.work = {}
  /\ entry.compressor = "JPEGCompressorAdvanced"
  /\ entry.file.type = "image/jpeg" /\ entry.file.size > 50 * MB

BinarySearches == {"jpegAdvanced", "jpegSimple", "jpegWorker"}

\* C18: a run of a quality search, on any image, passes through its loop at most
\* ceil(log2((MAX_QUALITY - MIN_QUALITY) / QUALITY_PRECISION)) + 2 = 9 times, and
\* encodes at most once at the maximum and once at the minimum quality outside
\* the loop.
C18_SearchIterationsBounded ==
  /\ CeilLog2(MAX_QUALITY - MIN_QUALITY, QUALITY_PRECISION) + 2 = 9
  /\ search.iteration <= CeilLog2(MAX_QUALITY - MIN_QUALITY, QUALITY_PRECISION) + 2
  /\ search.probesAtMax <= 1
  /\ search.probesAtMin <= 1

(* a search that ran its loop to the precision, found nothing that fits, and
   encoded once more at the minimum quality *)
C18_Witness ==
  /\ search.fn \in BinarySearches /\ search.pc \in {"returned", "threw"}
  /\ search.iteration = 7
  /\ search.probesAtMin = 1

\* C19: analyzeImageType returns the kind of the first matching rule of the
\* decision table, evaluated on the counts divided by the number of sampled
\* pixels.
C19_FirstMatchingRule ==
  analysis.pc = "returned"
    => analysis.kind = imageTypeOf(analysis.counts, VisitedPixels(analysis.sampleSize))

StepOf(pass) ==
  CASE pass = "photographic" -> 4 [] pass = "graphical" -> 8 [] pass = "aggressive" -> 16

(* m is the largest multiple of step that is not above v *)
LargestMultipleNotAbove(m, step, v) == m % step = 0 /\ m <= v /\ v < m + step

Quantized(after, before, step) ==
  /\ after.a = (IF before.a < 128 THEN 0 ELSE 255)
  /\ LargestMultipleNotAbove(after.r, step, before.r)
  /\ LargestMultipleNotAbove(after.g, step, before.g)
  /\ LargestMultipleNotAbove(after.b, step, before.b)

AfterStatedPass == quant.pc = "done" /\ quant.pass \in {"photographic", "graphical", "aggressive"}

\* C20 as stated: after the photographic, graphical or aggressive pass every
\* pixel has alpha 0 or 255 (0 when it was below 128) and each colour channel is
\* the largest multiple of the pass's step (4, 8, 16) not above its previous value.
C20_EveryPixelQuantized ==
  AfterStatedPass => Quantized(quant.data, quant.before, StepOf(quant.pass))

\* C20, amended: the same for every pixel that was not fully transparent before
\* the pass; a pixel that was fully transparent is left as it was.
C20_VisiblePixelsQuantized ==
  AfterStatedPass =>
    IF quant.before.a # 0
      THEN Quantized(quant.data, quant.before, StepOf(quant.pass))
      ELSE quant.data = quant.before

(* the aggressive pass changed the colour of an opaque pixel that the adaptive
   pass had already reduced *)
C20_Witness ==
  /\ AfterStatedPass /\ quant.pass = "aggressive"
  /\ quant.before.a = 255
  /\ quant.before.r = 126 /\ quant.data.r = 112

isColoured(c) == ~isBlack(c) /\ ~isWhite(c) /\ ~isGray(c)

C22_OptionTargetIsStrategyTarget ==
  (/\ adv.kind = "png"
   /\ adv.targetSize = PAGE_PNG_TARGET
   /\ Len(advStages) > 0)
     => adv.targetSizeInternal = adv.targetSize

\* C23: an image larger than 5 MB that an advanced compressor handles is
\* processed in tiles: the first strategy of the run is a tiling one.
C23_LargeImagesTiled ==
  (/\ adv.kind # "none"
   /\ adv.file.size > 5 * MB
   /\ Len(advStages) > 0)
     => advStages[1] \in {"compressWithTiling", "compressWithSimpleTiling"}

\* C24: when the encoding at maximum quality meets the target, the JPEG
\* quality search returns that encoding with quality MAX_QUALITY after the
\* one probe at maximum quality, and probes no other quality.
C24_MaxQualityReturnedAtOnce ==
  (/\ search.pc = "returned"
   /\ search.fn \in {"jpegAdvanced", "jpegSimple"}
   /\ search.result.blob.encoding # "file"
   /\ Fits(canvasToBlob(search.img, MAX_QUALITY), search.targetSize))
     => /\ search.result.blob = canvasToBlob(search.img, MAX_QUALITY)
        /\ search.result.quality = MAX_QUALITY
        /\ search.probesAtMax = 1
        /\ search.iteration = 0
        /\ search.probesAtMin = 0

(* The encoded size changes only where the quality passes a multiple of 0.01:
   the highest quality of the range that fits is among these. *)
QualitySteps ==
  {MIN_QUALITY, MAX_QUALITY}
    \cup {k * PerCent : k \in (MIN_QUALITY \div PerCent)..(MAX_QUALITY \div PerCent)}
    \cup {k * PerCent - 1 : k \in (MIN_QUALITY \div PerCent + 1)..(MAX_QUALITY \div PerCent)}

FittingQualities(img, targetSize) ==
  {q \in QualitySteps : Fits(canvasToBlob(img, q), targetSize)}

HighestFitting(img, targetSize) ==
  CHOOSE q \in FittingQualities(img, targetSize) :
    \A p \in FittingQualities(img, targetSize) : p <= q

(* 0.03 for JPEGCompressorAdvanced.findOptimalQuality, 0.01 for JPEGCompressor *)
StoppingTolerance(fn) == IF fn = "jpegAdvanced" THEN 3 * PerCent ELSE PerCent

\* C25: for an image whose encoded size never decreases as quality increases
\* and a target some quality of the range meets, the quality a JPEG binary
\* search returns is at most the stopping tolerance (0.03 advanced, 0.01
\* simple) below the highest quality of the range whose encoding meets the
\* target.
C25_ReturnedQualityNearHighest ==
  (/\ search.pc = "returned"
   /\ search.fn \in {"jpegAdvanced", "jpegSimple"}
   /\ search.result.blob.encoding # "file"
   /\ Monotone(search.img)
   /\ FittingQualities(search.img, search.targetSize) # {})
     => search.result.quality + StoppingTolerance(search.fn)
          >= HighestFitting(search.img, search.targetSize)

(* a search whose loop narrowed the range down to a quality below the highest
   one that fits *)
C25_Witness ==
  /\ search.pc = "returned"
  /\ search.fn = "jpegAdvanced"
  /\ Monotone(search.img)
  /\ search.iteration >= 5
  /\ search.result.blob = search.bestBlob
  /\ search.result.quality < HighestFitting(search.img, search.targetSize)
  /\ HighestFitting(search.img, search.targetSize) < MAX_QUALITY

(* the tiles whose promise was created by processTileWithWorker and has not
   settled *)
PendingTiles == {t \in TileIds : tileState[t].st # "none" /\ tileState[t].value = NoValue}

\* C26: during JPEG tiled compression at most 4 tile promises are pending, all
\* of them of the current batch, and none is pending when the next batch is
\* dispatched.
C26_AtMostOneBatchPending ==
  /\ BATCH_SIZE = 4
  /\ Cardinality(PendingTiles) <= BATCH_SIZE
  /\ PendingTiles \subseteq InBatch(tileRun)
  /\ tileRun.pc = "batch" => PendingTiles = {}

(* the second batch of a row is pending, every tile of the first one settled *)
C26_Witness ==
  /\ tileRun.pc = "awaitBatch"
  /\ tileRun.x = BATCH_SIZE
  /\ PendingTiles # {}
  /\ \A t \in 1..BATCH_SIZE : tileState[t].st = "settled"

\* C27: a pooled worker is held by at most one task whose promise has not
\* settled: no two unsettled tasks were handed the same worker by getWorker.
C27_WorkerHeldByOneTask ==
  \A t, u \in Tasks :
     (/\ t # u
      /\ tasks[t].held # 0
      /\ tasks[t].settled = "no"
      /\ tasks[u].settled = "no")
       => tasks[u].held # tasks[t].held

\* C28: a task's promise is resolved only by the worker's answer to that
\* task's own request, never by the answer to the request of an earlier task
\* on the same worker.
C28_OwnAnswerOnly ==
  \A t \in Tasks : tasks[t].settled = "resolved" => tasks[t].answerOf = t

\* C29: releaseWorker called with the worker a task holds marks exactly that
\* pooled worker idle and leaves the busy flag of every other one as it is.
C29_ReleaseMarksHeldWorkerOnly ==
  \A t \in Tasks :
     tasks[t].held # 0
       => releaseWorker(workerPool, HeldId(t)) = [workerPool EXCEPT ![tasks[t].held].busy = FALSE]

\* C30: a compressedResult other than null was produced from the image that
\* originalImage holds.
C30_ResultOfCurrentImage ==
  compressedResult # NoCompressedResult => compressedResult.of = originalImage

\* C31: of the compressWithWorker calls that run at the same time on one
\* JPEGCompressorAdvanced, each one that resolves does so with the result of
\* its own image.
C31_OwnImageResult ==
  \A c \in JpegCalls : jpegCalls[c].settled = "resolved" => jpegCalls[c].resultOf = c

\* C32: whenever handleCompress is not running, every progress interval it
\* started has been cleared.
C32_IntervalsClearedAtFinish ==
  hcRun.pc = "idle" => \A i \in 1..Len(intervals) : ~intervals[i].active

\* C33: the tile-by-tile quantization of compressWithSimpleTiling gives every
\* pixel the value the one-pass quantization of compressWithSimpleApproach
\* gives it.
C33_TilingEqualsOnePass ==
  simple.pc = "done" => simple.tiled = simple.whole

AfterLineArtPass == quant.pc = "done" /\ quant.pass = "lineart" /\ quant.before.a # 0

GrayLevelValues == {0, 85, 170, 255}

(* the first three cases of the base line-art pass *)
LineArtFixedCases ==
  /\ isDark(quant.before) => quant.data = Pixel(0, 0, 0, quant.before.a)
  /\ isLight(quant.before) => quant.data = Pixel(255, 255, 255, quant.before.a)
  /\ isNearGray(quant.before) =>
        /\ quant.data.r \in GrayLevelValues
        /\ quant.data.g = quant.data.r /\ quant.data.b = quant.data.r

isColouredLine(p) == ~isDark(p) /\ ~isLight(p) /\ ~isNearGray(p)

\* C34 as stated: after the base line-art pass a non-transparent pixel is black
\* if all its channels were below 30, white if all were above 200, one of the
\* gray levels 0, 85, 170, 255 if its channels differed pairwise by less than
\* 20, and otherwise has every channel at a multiple of 32.
C34_LineArtLevels ==
  AfterLineArtPass =>
    /\ LineArtFixedCases
    /\ isColouredLine(quant.before) =>
          \A ch \in {quant.data.r, quant.data.g, quant.data.b} : ch % 32 = 0

\* C34 amended: as above, but a channel of a coloured pixel is a multiple of 32
\* or, when it was 240 or more, 255.
C34_LineArtLevelsCapped ==
  AfterLineArtPass =>
    /\ LineArtFixedCases
    /\ isColouredLine(quant.before) =>
          /\ (quant.data.r % 32 = 0 /\ quant.before.r < 240) \/ (quant.data.r = 255 /\ quant.before.r >= 240)
          /\ (quant.data.g % 32 = 0 /\ quant.before.g < 240) \/ (quant.data.g = 255 /\ quant.before.g >= 240)
          /\ (quant.data.b % 32 = 0 /\ quant.before.b < 240) \/ (quant.data.b = 255 /\ quant.before.b >= 240)

C34_Witness ==
  /\ AfterLineArtPass
  /\ quant.before = Pixel(255, 0, 130, 255)
  /\ quant.data = Pixel(255, 0, 128, 255)

\* C35: every downscale factor a compressor draws an image with lies between
\* 0.6 and 0.9.
C35_DownscaleFactorInRange ==
  (scaling.pc = "drawn" /\ scaling.scaleFactor < ScaleUnit)
    => (6 <= scaling.scaleFactor /\ scaling.scaleFactor <= 9)

\* C36: for every sample size the number of pixels the loops of
\* analyzeImageType visit equals totalSampledPixels, so that no count of the
\* loop exceeds totalSampledPixels (every ratio is at most 1).
C36_VisitedEqualsTotalSampled ==
  analysis.pc \in {"sampled", "returned"} =>
    LET total == totalSampledPixels(analysis.sampleSize)
    IN  /\ VisitedPixels(analysis.sampleSize) = total
        /\ analysis.counts.blackWhite <= total
        /\ analysis.counts.gray <= total
        /\ analysis.counts.uniqueColors <= total
        /\ analysis.counts.edgeCount <= total

\* C37: the canvas pool never holds more than 10 canvases, never holds the
\* same canvas twice, and never holds the canvas a strategy is still drawing
\* on or encoding.
C37_CanvasPoolSound ==
  /\ Len(canvasPool) <= MAX_CANVAS_POOL
  /\ \A i, j \in 1..Len(canvasPool) : canvasPool[i] = canvasPool[j] => i = j
  /\ dsc.pc \in {"encoding", "fallback"} =>
        \A i \in 1..Len(canvasPool) : canvasPool[i] # dsc.canvas

\* C4: the pool never holds more workers than maxWorkers.
C4_PoolBounded == Len(workerPool) <= maxWorkers

\* C5: when a task's promise settles, the worker the task obtained is idle.
C5_WorkerIdleAtSettle ==
  \A t \in Tasks : tasks[t].settled # "no" => tasks[t].releasedAtSettle

====
